---- MODULE Spec2Model ----
(***************************************************************************)
(* AetherDrive: the identity resolver (FileManager), the storage           *)
(* capability (Storage: primary IPFS client with a local mock fallback)    *)
(* and the envelope codec (Encryption), as state machines.                 *)
(***************************************************************************)
EXTENDS Integers, Sequences, FiniteSets, TLC

(***************************************************************************)
(* Bounds of the model.                                                    *)
(***************************************************************************)
MaxUuid == 2        \* how many logical IDs generateFileId may hand out
MaxSteps == 3       \* how many calls a behaviour makes
MaxLen == 17        \* longest plaintext, in bytes

(***************************************************************************)
(* Values.                                                                 *)
(***************************************************************************)
Null == <<"null">>
NoFile == <<"nofile">>

\* the file contents the environment writes: equal or different is all that
\* the storage distinguishes
Contents == {<<"data", 0>>, <<"data", 1>>}

SrcPaths == {<<"fileA">>, <<"fileB">>}
DestPaths == {<<"dest">>}
Paths == SrcPaths \cup DestPaths

\* crypto.createHash('sha256').update(content).digest('hex').substring(0, 8)
_generateMockFileId(content) == <<"mock", content[2]>>

\* the content identifier the primary (content addressed) backend assigns
IpfsCid(content) == <<"cid", content[2]>>

\* as UuidOf, but the generator hands out one identifier again and again
UuidOf_Repeating(n) == <<"uuid", 1>>

\* uuidv4(): the n-th identifier generated
UuidOf(n) == <<"uuid", n>>

CustomIds == {<<"custom", 1>>}
FileIdOpts == {Null} \cup CustomIds

\* the storage types callers ask for: the one supported, two that are not,
\* and none at all (the parameter's default then applies)
IpfsType == <<"ipfs">>
Undefined == <<"undefined">>
StorageTypes == {IpfsType, <<"IPFS">>, <<"s3">>}
StorageTypeOpts == StorageTypes \cup {Undefined}

\* `Mock content for file ID: ${fileId}`
MockContentFor(id) == <<"mocktext", id>>

VARIABLES
  fs,            \* local filesystem: path -> content or NoFile
  usingMock,     \* Storage.usingMock
  ipfs,          \* Storage.ipfs: <<"client">> or Null
  storageType,   \* Storage.storageType, Null while no Storage is constructed
  files,         \* Storage.files (mock storage map): id -> content
  ipfsBlocks,    \* contents held by the primary backend
  ipfsPins,      \* contents pinned on the primary backend
  fileRegistry,  \* FileManager.fileRegistry: logical id -> record
  nextUuid,      \* number of identifiers generateFileId has returned
  last,          \* the last completed operation and its outcome
  primaryErrSeen,\* some call before the last one met a primary error
  steps,         \* number of calls made so far
  liveIds,       \* logical ids uploaded successfully and not deleted since
  generation,    \* how many FileManager objects the storage has been given to
  cfs,           \* the files the codec reads and writes: path -> bytes
  origin,        \* path -> the (plaintext, password) encryptFile wrote it from
  clast,         \* the last completed codec call and its outcome
  tasks,         \* calls in flight: task -> position and what it holds
  serial,        \* the registry of the calls completed so far, run in turn
  klast,         \* the last generateKey call and what it returned
  kprev,         \* the generateKey call before it
  objects,       \* the record objects created so far, by reference
  registryMap,   \* the registry as Map entries (key, reference), in order
  listing        \* what the last listFiles() returned, as the caller holds it

resolverVars == <<fs, usingMock, ipfs, storageType, files, ipfsBlocks,
                  ipfsPins, fileRegistry, nextUuid, last, primaryErrSeen, steps,
                  liveIds, generation>>
codecVars == <<cfs, origin, clast>>
concVars == <<tasks, serial>>
keyVars == <<klast, kprev>>
listVars == <<objects, registryMap, listing>>
vars == <<resolverVars, codecVars, concVars, keyVars, listVars>>

(***************************************************************************)
(* Maps (JavaScript Map objects) as functions on a finite set of keys.     *)
(***************************************************************************)
MapSet(m, k, v) == [x \in (DOMAIN m) \cup {k} |-> IF x = k THEN v ELSE m[x]]
MapDelete(m, k) == [x \in (DOMAIN m) \ {k} |-> m[x]]
EmptyMap == [x \in {} |-> Null]

(***************************************************************************)
(* The primary backend (ipfs-http-client), by the calls Storage makes on   *)
(* it.  ok = FALSE is the call raising an error (network, gateway, ...).   *)
(***************************************************************************)
\* the message of an error the primary raises (Storage only logs it)
IpfsError == <<"IPFS error">>

\* this.ipfs.add(fileContent, options): content addressed, pins what it adds
IpfsAdd(content, ok) ==
  IF ok
  THEN [ok |-> TRUE, value |-> IpfsCid(content), msg |-> <<>>,
        blocks |-> ipfsBlocks \cup {content}, pins |-> ipfsPins \cup {content}]
  ELSE [ok |-> FALSE, value |-> Null, msg |-> IpfsError,
        blocks |-> ipfsBlocks, pins |-> ipfsPins]

\* this.ipfs.cat(fileId, options): only a CID whose block is held can be read
IpfsCat(fileId, ok) ==
  LET held == {c \in ipfsBlocks : IpfsCid(c) = fileId}
  IN IF ok /\ held # {}
     THEN [ok |-> TRUE, value |-> CHOOSE c \in held : TRUE, msg |-> <<>>]
     ELSE [ok |-> FALSE, value |-> Null, msg |-> IpfsError]

\* this.ipfs.pin.rm(fileId, options): fails on what is not pinned
IpfsPinRm(fileId, ok) ==
  LET pinned == {c \in ipfsPins : IpfsCid(c) = fileId}
  IN IF ok /\ pinned # {}
     THEN [ok |-> TRUE, pins |-> ipfsPins \ pinned, msg |-> <<>>]
     ELSE [ok |-> FALSE, pins |-> ipfsPins, msg |-> IpfsError]

\* this.ipfs.pin.ls(options)
IpfsPinLs(ok) ==
  IF ok THEN [ok |-> TRUE, value |-> {IpfsCid(c) : c \in ipfsPins}, msg |-> <<>>]
        ELSE [ok |-> FALSE, value |-> {}, msg |-> IpfsError]

(***************************************************************************)
(* Storage: the local (mock) implementation.  fsOk = FALSE is the local    *)
(* filesystem call (fs.writeFile, fs.remove) raising an error.             *)
(***************************************************************************)
_mockUploadFile(filePath, fileContent, fileIdOpt, fsOk) ==
  LET fileId == IF fileIdOpt # Null THEN fileIdOpt
                ELSE _generateMockFileId(fileContent)
  IN IF fsOk
     THEN [ok |-> TRUE, value |-> fileId, msg |-> <<>>,
           files |-> MapSet(files, fileId, fileContent), written |-> Null]
     ELSE [ok |-> FALSE, value |-> Null, msg |-> <<"EIO">>,
           files |-> files, written |-> Null]

_mockDownloadFile(fileId, destination, fsOk) ==
  LET content == IF fileId \in DOMAIN files THEN files[fileId]
                 ELSE MockContentFor(fileId)
  IN IF fsOk
     THEN [ok |-> TRUE, value |-> destination, msg |-> <<>>,
           files |-> files, written |-> content]
     ELSE [ok |-> FALSE, value |-> Null, msg |-> <<"EIO">>,
           files |-> files, written |-> Null]

\* as _mockDeleteFile, but an identifier that is not stored is an error
_mockDeleteFile_Missing(fileId, fsOk) ==
  IF fileId \in DOMAIN files
  THEN IF fsOk
       THEN [ok |-> TRUE, value |-> TRUE, msg |-> <<>>,
             files |-> MapDelete(files, fileId), written |-> Null]
       ELSE [ok |-> FALSE, value |-> Null, msg |-> <<"EIO">>,
             files |-> files, written |-> Null]
  ELSE [ok |-> FALSE, value |-> Null, msg |-> <<"File not found">>,
        files |-> files, written |-> Null]

_mockDeleteFile(fileId, fsOk) ==
  IF fileId \in DOMAIN files
  THEN IF fsOk
       THEN [ok |-> TRUE, value |-> TRUE, msg |-> <<>>,
             files |-> MapDelete(files, fileId), written |-> Null]
       ELSE [ok |-> FALSE, value |-> Null, msg |-> <<"EIO">>,
             files |-> files, written |-> Null]
  ELSE [ok |-> TRUE, value |-> TRUE, msg |-> <<>>,
        files |-> files, written |-> Null]

_mockListFiles == 
  [ok |-> TRUE, value |-> DOMAIN files, msg |-> <<>>,
   files |-> files, written |-> Null]

(***************************************************************************)
(* Storage: the public operations.  Each returns the outcome of the call   *)
(* (status, value or message), the storage state after it, what was        *)
(* written to the destination path, and how the backends were used.        *)
(***************************************************************************)
FromPrimary(p) ==
  [status |-> "ok", value |-> p.value, msg |-> <<>>,
   files |-> files, blocks |-> p.blocks, pins |-> p.pins, written |-> p.written,
   usingMock |-> usingMock,
   pCalls |-> 1, pErr |-> FALSE, fCalls |-> 0, fOk |-> FALSE, fValue |-> Null]

FromFallback(f, pCalls, wrap) ==
  [status |-> IF f.ok THEN "ok" ELSE "error", value |-> f.value,
   msg |-> IF f.ok THEN <<>> ELSE wrap \o f.msg,
   files |-> f.files, blocks |-> ipfsBlocks, pins |-> ipfsPins,
   written |-> f.written, usingMock |-> usingMock,
   pCalls |-> pCalls, pErr |-> (pCalls > 0), fCalls |-> 1, fOk |-> f.ok,
   fValue |-> f.value]

NoBackend(msg) ==
  [status |-> "error", value |-> Null, msg |-> msg,
   files |-> files, blocks |-> ipfsBlocks, pins |-> ipfsPins, written |-> Null,
   usingMock |-> usingMock,
   pCalls |-> 0, pErr |-> FALSE, fCalls |-> 0, fOk |-> FALSE, fValue |-> Null]

\* as SelectBackend, but the primary's error is thrown on to the caller
SelectBackend_Rethrow(p, f, wrap) ==
  IF ~usingMock /\ ipfs # Null
  THEN IF p.ok THEN FromPrimary(p)
       ELSE [NoBackend(wrap \o p.msg) EXCEPT !.pCalls = 1, !.pErr = TRUE]
  ELSE FromFallback(f, 0, wrap)

\* as SelectBackend, but a primary error switches the object to the mock
SelectBackend_Sticky(p, f, wrap) ==
  IF ~usingMock /\ ipfs # Null
  THEN IF p.ok THEN FromPrimary(p)
       ELSE [FromFallback(f, 1, wrap) EXCEPT !.usingMock = TRUE]
  ELSE FromFallback(f, 0, wrap)

\* as SelectBackend, but the primary is tried a second time before falling
\* back
SelectBackend_Retry(p, f, wrap) ==
  IF ~usingMock /\ ipfs # Null
  THEN IF p.ok THEN FromPrimary(p) ELSE FromFallback(f, 2, wrap)
  ELSE FromFallback(f, 0, wrap)

\* if (!this.usingMock && this.ipfs) { try { primary } catch { fallback } }
\* else { fallback }: p is the outcome of the primary's try block, f of the
\* local implementation, wrap the prefix the outer catch adds to a message
SelectBackend(p, f, wrap) ==
  IF ~usingMock /\ ipfs # Null
  THEN IF p.ok THEN FromPrimary(p) ELSE FromFallback(f, 1, wrap)
  ELSE FromFallback(f, 0, wrap)

\* as Storage_constructor, but a type that is not supported is accepted and
\* left for the operations to refuse
Storage_constructor_Lazy(storageTypeOpt, moduleLoaded, createOk) ==
  LET type == IF storageTypeOpt = Undefined THEN IpfsType ELSE storageTypeOpt
  IN IF type = IpfsType /\ moduleLoaded /\ createOk
     THEN [status |-> "ok", msg |-> <<>>, storageType |-> type,
           usingMock |-> FALSE, ipfs |-> <<"client">>]
     ELSE [status |-> "ok", msg |-> <<>>, storageType |-> type,
           usingMock |-> TRUE, ipfs |-> Null]

\* constructor(storageType = 'ipfs', config = {}) with _initializeStorage:
\* moduleLoaded is require('ipfs-http-client') having succeeded, createOk is
\* ipfsHttpClient.create returning instead of throwing
Storage_constructor(storageTypeOpt, moduleLoaded, createOk) ==
  LET type == IF storageTypeOpt = Undefined THEN IpfsType ELSE storageTypeOpt
  IN IF type = IpfsType
     THEN IF moduleLoaded /\ createOk
          THEN [status |-> "ok", msg |-> <<>>, storageType |-> type,
                usingMock |-> FALSE, ipfs |-> <<"client">>]
          ELSE [status |-> "ok", msg |-> <<>>, storageType |-> type,
                usingMock |-> TRUE, ipfs |-> Null]
     ELSE [status |-> "error", msg |-> <<"Unsupported storage type">> \o type,
           storageType |-> Null, usingMock |-> FALSE, ipfs |-> Null]

\* throw new Error(`<Op> not implemented for storage type: ...`)
NotImplemented(wrap) ==
  NoBackend(wrap \o <<"not implemented for storage type">> \o storageType)

Storage_uploadFile(filePath, fileIdOpt, tryOk, fsOk) ==
  IF fs[filePath] = NoFile
  THEN NoBackend(<<"File not found">>)
  ELSE IF storageType # IpfsType THEN NotImplemented(<<>>)
  ELSE LET fileContent == fs[filePath]
           a == IpfsAdd(fileContent, tryOk)
       IN SelectBackend(
            [ok |-> a.ok, value |-> a.value, msg |-> a.msg, blocks |-> a.blocks,
             pins |-> a.pins, written |-> Null],
            _mockUploadFile(filePath, fileContent, fileIdOpt, fsOk),
            <<>>)

\* tryOk: ipfs.cat and the fs.writeFile in the same try block both succeed
Storage_downloadFile(fileId, destination, tryOk, fsOk) ==
  LET c == IpfsCat(fileId, tryOk)
  IN IF storageType # IpfsType
     THEN NotImplemented(<<"Failed to download file">>)
     ELSE SelectBackend(
            [ok |-> c.ok, value |-> destination, msg |-> c.msg,
             blocks |-> ipfsBlocks,
             pins |-> ipfsPins, written |-> c.value],
            _mockDownloadFile(fileId, destination, fsOk),
            <<"Failed to download file">>)

Storage_deleteFile(fileId, tryOk, fsOk) ==
  LET r == IpfsPinRm(fileId, tryOk)
  IN IF storageType # IpfsType
     THEN NotImplemented(<<"Failed to delete file">>)
     ELSE SelectBackend(
            [ok |-> r.ok, value |-> TRUE, msg |-> r.msg,
             blocks |-> ipfsBlocks,
             pins |-> r.pins, written |-> Null],
            _mockDeleteFile(fileId, fsOk),
            <<"Failed to delete file">>)

Storage_listFiles(tryOk) ==
  LET l == IpfsPinLs(tryOk)
  IN IF storageType # IpfsType
     THEN NotImplemented(<<"Failed to list files">>)
     ELSE SelectBackend(
            [ok |-> l.ok, value |-> l.value, msg |-> l.msg,
             blocks |-> ipfsBlocks,
             pins |-> ipfsPins, written |-> Null],
            _mockListFiles,
            <<"Failed to list files">>)

(***************************************************************************)
(* FileManager: the resolver.  Each operation returns its outcome, the     *)
(* registry after it and the outcome s of the storage call it made         *)
(* (sCalls of them, with sArg as the identifier handed to the storage).    *)
(***************************************************************************)
NoStorageCall == NoBackend(<<>>)

\* options.encrypted || false, the option being {} when absent and {b} when
\* given as the boolean b
OrFalse(encrypted) == TRUE \in encrypted

\* as FM_constructor, but the registry is rebuilt from what the storage's
\* local map holds
FM_constructor_Restore ==
  [registry |-> [k \in DOMAIN files |->
                   [id |-> k, storageId |-> k, name |-> Null,
                    encrypted |-> FALSE]]]

\* constructor(storage): this.fileRegistry = new Map()
FM_constructor == [registry |-> EmptyMap]

\* as FM_uploadFile, but the record is inserted before the storage call
FM_uploadFile_InsertFirst(filePath, fileIdOpt, encrypted, tryOk, fsOk) ==
  IF fs[filePath] = NoFile
  THEN [status |-> "error", value |-> Null,
        msg |-> <<"Failed to upload file", "ENOENT">>,
        registry |-> fileRegistry, nextUuid |-> nextUuid,
        sCalls |-> 0, sArg |-> Null, s |-> NoStorageCall]
  ELSE LET s == Storage_uploadFile(filePath, fileIdOpt, tryOk, fsOk)
           generated == (fileIdOpt = Null)
           fileId == IF generated THEN UuidOf(nextUuid + 1) ELSE fileIdOpt
           registry == MapSet(fileRegistry, fileId,
                         [id |-> fileId, storageId |-> s.value,
                          name |-> filePath, encrypted |-> OrFalse(encrypted)])
       IN [status |-> s.status,
           value |-> IF s.status = "ok" THEN fileId ELSE Null,
           msg |-> IF s.status = "ok" THEN <<>>
                   ELSE <<"Failed to upload file">> \o s.msg,
           registry |-> registry,
           nextUuid |-> IF generated THEN nextUuid + 1 ELSE nextUuid,
           sCalls |-> 1, sArg |-> filePath, s |-> s]

\* as FM_uploadFile, but without the fs.access check before the storage call
FM_uploadFile_NoAccess(filePath, fileIdOpt, encrypted, tryOk, fsOk) ==
  LET s == Storage_uploadFile(filePath, fileIdOpt, tryOk, fsOk)
      generated == (fileIdOpt = Null)
      fileId == IF generated THEN UuidOf(nextUuid + 1) ELSE fileIdOpt
  IN IF s.status = "error"
     THEN [status |-> "error", value |-> Null,
           msg |-> <<"Failed to upload file">> \o s.msg,
           registry |-> fileRegistry, nextUuid |-> nextUuid,
           sCalls |-> 1, sArg |-> filePath, s |-> s]
     ELSE [status |-> "ok", value |-> fileId, msg |-> <<>>,
           registry |-> MapSet(fileRegistry, fileId,
                          [id |-> fileId, storageId |-> s.value,
                           name |-> filePath, encrypted |-> OrFalse(encrypted)]),
           nextUuid |-> IF generated THEN nextUuid + 1 ELSE nextUuid,
           sCalls |-> 1, sArg |-> filePath, s |-> s]

\* as FM_uploadFile, but the record never carries the encrypted option
FM_uploadFile_FlagDropped(filePath, fileIdOpt, encrypted, tryOk, fsOk) ==
  IF fs[filePath] = NoFile
  THEN [status |-> "error", value |-> Null,
        msg |-> <<"Failed to upload file", "ENOENT">>,
        registry |-> fileRegistry, nextUuid |-> nextUuid,
        sCalls |-> 0, sArg |-> Null, s |-> NoStorageCall]
  ELSE LET s == Storage_uploadFile(filePath, fileIdOpt, tryOk, fsOk)
           generated == (fileIdOpt = Null)
           fileId == IF generated THEN UuidOf(nextUuid + 1) ELSE fileIdOpt
       IN IF s.status = "error"
          THEN [status |-> "error", value |-> Null,
                msg |-> <<"Failed to upload file">> \o s.msg,
                registry |-> fileRegistry, nextUuid |-> nextUuid,
                sCalls |-> 1, sArg |-> filePath, s |-> s]
          ELSE [status |-> "ok", value |-> fileId, msg |-> <<>>,
                registry |-> MapSet(fileRegistry, fileId,
                               [id |-> fileId, storageId |-> s.value,
                                name |-> filePath, encrypted |-> FALSE]),
                nextUuid |-> IF generated THEN nextUuid + 1 ELSE nextUuid,
                sCalls |-> 1, sArg |-> filePath, s |-> s]

FM_uploadFile(filePath, fileIdOpt, encrypted, tryOk, fsOk) ==
  IF fs[filePath] = NoFile
  THEN [status |-> "error", value |-> Null,
        msg |-> <<"Failed to upload file", "ENOENT">>,
        registry |-> fileRegistry, nextUuid |-> nextUuid,
        sCalls |-> 0, sArg |-> Null, s |-> NoStorageCall]
  ELSE LET s == Storage_uploadFile(filePath, fileIdOpt, tryOk, fsOk)
           generated == (fileIdOpt = Null)
           fileId == IF generated THEN UuidOf(nextUuid + 1) ELSE fileIdOpt
       IN IF s.status = "error"
          THEN [status |-> "error", value |-> Null,
                msg |-> <<"Failed to upload file">> \o s.msg,
                registry |-> fileRegistry, nextUuid |-> nextUuid,
                sCalls |-> 1, sArg |-> filePath, s |-> s]
          ELSE [status |-> "ok", value |-> fileId, msg |-> <<>>,
                registry |-> MapSet(fileRegistry, fileId,
                               [id |-> fileId, storageId |-> s.value,
                                name |-> filePath, encrypted |-> OrFalse(encrypted)]),
                nextUuid |-> IF generated THEN nextUuid + 1 ELSE nextUuid,
                sCalls |-> 1, sArg |-> filePath, s |-> s]

\* as FM_downloadFile, but an identifier the registry does not know is
\* refused
FM_downloadFile_Strict(fileId, destination, tryOk, fsOk) ==
  IF fileId \in DOMAIN fileRegistry
  THEN LET storageId == fileRegistry[fileId].storageId
           s == Storage_downloadFile(storageId, destination, tryOk, fsOk)
       IN [status |-> s.status, value |-> s.value,
           msg |-> IF s.status = "error"
                   THEN <<"Failed to download file">> \o s.msg ELSE <<>>,
           registry |-> fileRegistry, nextUuid |-> nextUuid,
           sCalls |-> 1, sArg |-> storageId, s |-> s]
  ELSE [status |-> "error", value |-> Null,
        msg |-> <<"Failed to download file", "unknown id">>,
        registry |-> fileRegistry, nextUuid |-> nextUuid,
        sCalls |-> 0, sArg |-> Null, s |-> NoStorageCall]

\* as FM_downloadFile, but a record whose download failed is dropped
FM_downloadFile_Forget(fileId, destination, tryOk, fsOk) ==
  LET storageId == IF fileId \in DOMAIN fileRegistry
                   THEN fileRegistry[fileId].storageId ELSE fileId
      s == Storage_downloadFile(storageId, destination, tryOk, fsOk)
  IN [status |-> s.status, value |-> s.value,
      msg |-> IF s.status = "error"
              THEN <<"Failed to download file">> \o s.msg ELSE <<>>,
      registry |-> IF s.status = "error" THEN MapDelete(fileRegistry, fileId)
                   ELSE fileRegistry,
      nextUuid |-> nextUuid,
      sCalls |-> 1, sArg |-> storageId, s |-> s]

FM_downloadFile(fileId, destination, tryOk, fsOk) ==
  LET storageId == IF fileId \in DOMAIN fileRegistry
                   THEN fileRegistry[fileId].storageId ELSE fileId
      s == Storage_downloadFile(storageId, destination, tryOk, fsOk)
  IN [status |-> s.status, value |-> s.value,
      msg |-> IF s.status = "error"
              THEN <<"Failed to download file">> \o s.msg ELSE <<>>,
      registry |-> fileRegistry, nextUuid |-> nextUuid,
      sCalls |-> 1, sArg |-> storageId, s |-> s]

\* as FM_deleteFile, but the registry entry is removed under the storage's
\* identifier instead of the logical one
FM_deleteFile_WrongKey(fileId, tryOk, fsOk) ==
  LET known == fileId \in DOMAIN fileRegistry
      storageId == IF known THEN fileRegistry[fileId].storageId ELSE fileId
      s == Storage_deleteFile(storageId, tryOk, fsOk)
  IN [status |-> s.status, value |-> s.value,
      msg |-> IF s.status = "error"
              THEN <<"Failed to delete file">> \o s.msg ELSE <<>>,
      registry |-> IF known /\ s.status = "ok"
                   THEN MapDelete(fileRegistry, storageId) ELSE fileRegistry,
      nextUuid |-> nextUuid,
      sCalls |-> 1, sArg |-> storageId, s |-> s]

\* as FM_deleteFile, but an identifier the registry does not know is refused
FM_deleteFile_Strict(fileId, tryOk, fsOk) ==
  IF fileId \in DOMAIN fileRegistry
  THEN LET storageId == fileRegistry[fileId].storageId
           s == Storage_deleteFile(storageId, tryOk, fsOk)
       IN [status |-> s.status, value |-> s.value,
           msg |-> IF s.status = "error"
                   THEN <<"Failed to delete file">> \o s.msg ELSE <<>>,
           registry |-> IF s.status = "ok"
                        THEN MapDelete(fileRegistry, fileId) ELSE fileRegistry,
           nextUuid |-> nextUuid,
           sCalls |-> 1, sArg |-> storageId, s |-> s]
  ELSE [status |-> "error", value |-> Null,
        msg |-> <<"Failed to delete file", "unknown id">>,
        registry |-> fileRegistry, nextUuid |-> nextUuid,
        sCalls |-> 0, sArg |-> Null, s |-> NoStorageCall]

\* as FM_deleteFile, but the registry entry is removed before the storage is
\* asked to delete
FM_deleteFile_RemoveFirst(fileId, tryOk, fsOk) ==
  LET known == fileId \in DOMAIN fileRegistry
      storageId == IF known THEN fileRegistry[fileId].storageId ELSE fileId
      s == Storage_deleteFile(storageId, tryOk, fsOk)
  IN [status |-> s.status, value |-> s.value,
      msg |-> IF s.status = "error"
              THEN <<"Failed to delete file">> \o s.msg ELSE <<>>,
      registry |-> IF known THEN MapDelete(fileRegistry, fileId)
                   ELSE fileRegistry,
      nextUuid |-> nextUuid,
      sCalls |-> 1, sArg |-> storageId, s |-> s]

\* as FM_deleteFile, but an error of the storage delete is answered with
\* false instead of being thrown on
FM_deleteFile_Swallow(fileId, tryOk, fsOk) ==
  LET known == fileId \in DOMAIN fileRegistry
      storageId == IF known THEN fileRegistry[fileId].storageId ELSE fileId
      s == Storage_deleteFile(storageId, tryOk, fsOk)
  IN [status |-> "ok",
      value |-> IF s.status = "ok" THEN s.value ELSE FALSE,
      msg |-> <<>>,
      registry |-> IF known /\ s.status = "ok"
                   THEN MapDelete(fileRegistry, fileId) ELSE fileRegistry,
      nextUuid |-> nextUuid,
      sCalls |-> 1, sArg |-> storageId, s |-> s]

\* the identifier deleteFile hands to the storage: the record's storageId,
\* or the caller's id when there is no record
StorageIdOf(fileId) ==
  IF fileId \in DOMAIN fileRegistry THEN fileRegistry[fileId].storageId
  ELSE fileId

\* deleteFile from the point where await this.storage.deleteFile(...) has
\* returned or thrown, s being its outcome
FM_deleteFile_After(fileId, s) ==
  LET known == fileId \in DOMAIN fileRegistry
  IN [status |-> s.status, value |-> s.value,
      msg |-> IF s.status = "error"
              THEN <<"Failed to delete file">> \o s.msg ELSE <<>>,
      registry |-> IF known /\ s.status = "ok"
                   THEN MapDelete(fileRegistry, fileId) ELSE fileRegistry,
      nextUuid |-> nextUuid,
      sCalls |-> 1, sArg |-> StorageIdOf(fileId), s |-> s]

FM_deleteFile(fileId, tryOk, fsOk) ==
  FM_deleteFile_After(fileId,
                      Storage_deleteFile(StorageIdOf(fileId), tryOk, fsOk))

\* Array.from(this.fileRegistry.values())
\* as listFiles, but the storage's listFiles is awaited and nothing is
\* returned
FM_listFiles_ViaStorage ==
  LET s == [Storage_listFiles(FALSE) EXCEPT !.value = Null, !.fValue = Null]
  IN [status |-> s.status,
      value |-> Null,
      msg |-> IF s.status = "error"
              THEN <<"Failed to list files">> \o s.msg ELSE <<>>,
      registry |-> fileRegistry, nextUuid |-> nextUuid,
      sCalls |-> 1, sArg |-> Null, s |-> s]

FM_listFiles ==
  [status |-> "ok", value |-> {fileRegistry[k] : k \in DOMAIN fileRegistry},
   msg |-> <<>>, registry |-> fileRegistry, nextUuid |-> nextUuid,
   sCalls |-> 0, sArg |-> Null, s |-> NoStorageCall]

(***************************************************************************)
(* Encryption: the envelope codec.  Bytes are 0..255; a file is a sequence *)
(* of bytes; a path is a sequence of name parts, <<"plain", "txt", "enc">>  *)
(* being plain.txt.enc.                                                     *)
(***************************************************************************)
SaltLen == 16       \* crypto.randomBytes(16) in generateKey
IvLen == 16         \* crypto.randomBytes(16) in encryptFile
KeyLen == 32        \* pbkdf2Sync(..., 32, 'sha256')
BlockSize == 16     \* the block of 'aes-256-cbc'
HmacBlockLen == 64  \* the block of the HMAC of 'sha256'

RECURSIVE Xor(_, _)
\* bitwise exclusive or of two bytes
Xor(a, b) ==
  IF a = 0 THEN b
  ELSE IF b = 0 THEN a
  ELSE ((a + b) % 2) + 2 * Xor(a \div 2, b \div 2)

XorBlock(x, y) == [i \in 1..BlockSize |-> Xor(x[i], y[i])]

RECURSIVE Weighted(_, _)
\* sum of i * seq[i] over the first n bytes of seq
Weighted(seq, n) == IF n = 0 THEN 0 ELSE n * seq[n] + Weighted(seq, n - 1)

\* HMAC keys its hash with the password padded with zero bytes to the hash's
\* block (passwords here are shorter than the block)
HmacKey(password) ==
  [i \in 1..HmacBlockLen |-> IF i <= Len(password) THEN password[i] ELSE 0]

\* crypto.pbkdf2Sync(password, salt, 100000, 32, 'sha256'): a fixed function
\* of the HMAC key and the salt
KeyBytes(w) == [i \in 1..KeyLen |-> (w * i + i * i) % 256]
Pbkdf2(password, salt) ==
  KeyBytes(Weighted(HmacKey(password), HmacBlockLen)
             + 5 * Weighted(salt, Len(salt)) + Len(salt))

\* as generateKey, but a fresh salt is drawn even when one is supplied
generateKey_FreshSalt(password, salt, random) ==
  [key |-> Pbkdf2(password, random), salt |-> random]

\* generateKey(password, salt): salt is {} when none is given and {bytes}
\* otherwise; random is the 16 bytes crypto.randomBytes then returns
generateKey(password, salt, random) ==
  LET useSalt == IF salt # {} THEN CHOOSE x \in salt : TRUE ELSE random
  IN [key |-> Pbkdf2(password, useSalt), salt |-> useSalt]

\* the block cipher under a key: a permutation of the blocks, and its inverse
Rot(i) == (i % BlockSize) + 1
RotInv(j) == ((j + BlockSize - 2) % BlockSize) + 1

BlockEncrypt(key, b) ==
  [i \in 1..BlockSize |-> (b[Rot(i)] + key[i] + key[i + BlockSize]) % 256]

BlockDecrypt(key, c) ==
  [j \in 1..BlockSize |->
     (c[RotInv(j)] + 512 - key[RotInv(j)] - key[RotInv(j) + BlockSize]) % 256]

\* as Pad, but data that fills its last block gets no padding block
Pad_NoFullBlock(data) ==
  LET n == (BlockSize - (Len(data) % BlockSize)) % BlockSize
  IN data \o [i \in 1..n |-> n]

\* the padding cipher.final() appends: n bytes of value n, 1 <= n <= BlockSize
Pad(data) ==
  LET n == BlockSize - (Len(data) % BlockSize)
  IN data \o [i \in 1..n |-> n]

RECURSIVE CbcEncryptBlocks(_, _, _)
\* CBC over data whose length is a multiple of the block
CbcEncryptBlocks(key, chain, data) ==
  IF Len(data) = 0 THEN <<>>
  ELSE LET c == BlockEncrypt(key, XorBlock(SubSeq(data, 1, BlockSize), chain))
       IN c \o CbcEncryptBlocks(key, c, SubSeq(data, BlockSize + 1, Len(data)))

RECURSIVE CbcDecryptBlocks(_, _, _)
CbcDecryptBlocks(key, chain, data) ==
  IF Len(data) = 0 THEN <<>>
  ELSE LET c == SubSeq(data, 1, BlockSize)
       IN XorBlock(BlockDecrypt(key, c), chain)
            \o CbcDecryptBlocks(key, c, SubSeq(data, BlockSize + 1, Len(data)))

\* createCipheriv(ALGORITHM, key, iv): update(content) then final()
Cipher(key, iv, content) == CbcEncryptBlocks(key, iv, Pad(content))

\* what final() accepts: the last byte n is in 1..BlockSize and the last n
\* bytes are all n
PaddingOk(raw) ==
  /\ Len(raw) > 0
  /\ LET n == raw[Len(raw)]
     IN /\ n \in 1..BlockSize
        /\ \A i \in (Len(raw) - n + 1)..Len(raw) : raw[i] = n

\* createDecipheriv(ALGORITHM, key, iv): update(content) then final()
Decipher(key, iv, content) ==
  IF Len(content) = 0 \/ Len(content) % BlockSize # 0
  THEN [ok |-> FALSE, data |-> <<>>, msg |-> <<"wrong final block length">>]
  ELSE LET raw == CbcDecryptBlocks(key, iv, content)
       IN IF PaddingOk(raw)
          THEN [ok |-> TRUE, data |-> SubSeq(raw, 1, Len(raw) - raw[Len(raw)]),
                msg |-> <<>>]
          ELSE [ok |-> FALSE, data |-> <<>>, msg |-> <<"bad decrypt">>]

\* Buffer.slice(from, to) with 0-based from and exclusive to
Slice(buf, from, to) ==
  SubSeq(buf, from + 1, IF to < Len(buf) THEN to ELSE Len(buf))

\* options.outputPath || `${filePath}.enc`
EncOutputPath(filePath, outputPathOpt) ==
  IF outputPathOpt # Null THEN outputPathOpt ELSE Append(filePath, "enc")

\* options.outputPath || filePath.replace(/\.enc$/, '.dec')
DecOutputPath(filePath, outputPathOpt) ==
  IF outputPathOpt # Null THEN outputPathOpt
  ELSE IF Len(filePath) > 1 /\ filePath[Len(filePath)] = "enc"
       THEN [filePath EXCEPT ![Len(filePath)] = "dec"]
       ELSE filePath

\* the outcome of a codec call: status, the returned path or the message, and
\* the file written (path and bytes), if any
CodecOk(outputPath, data) ==
  [status |-> "ok", value |-> outputPath, msg |-> <<>>,
   wrote |-> TRUE, written |-> data]
CodecError(msg) ==
  [status |-> "error", value |-> Null, msg |-> msg,
   wrote |-> FALSE, written |-> <<>>]

Envelope_IvFirst(salt, iv, ciphertext) == iv \o salt \o ciphertext

\* Buffer.concat([salt, iv, cipher.update(fileContent), cipher.final()])
Envelope(salt, iv, ciphertext) == salt \o iv \o ciphertext

\* as Encryption_encryptFile, but the catch does not tell ENOENT apart
Encryption_encryptFile_NoEnoent(filePath, encryptionKey, outputPathOpt, randomIv, randomSalt) ==
  IF filePath \notin DOMAIN cfs
  THEN CodecError(<<"Failed to encrypt file", "ENOENT">>)
  ELSE LET outputPath == EncOutputPath(filePath, outputPathOpt)
           k == generateKey(encryptionKey, {}, randomSalt)
           fileContent == cfs[filePath]
       IN CodecOk(outputPath,
                  Envelope(k.salt, randomIv, Cipher(k.key, randomIv, fileContent)))

Encryption_encryptFile(filePath, encryptionKey, outputPathOpt, randomIv, randomSalt) ==
  IF filePath \notin DOMAIN cfs
  THEN CodecError(<<"File not found">>)
  ELSE LET outputPath == EncOutputPath(filePath, outputPathOpt)
           k == generateKey(encryptionKey, {}, randomSalt)
           fileContent == cfs[filePath]
       IN CodecOk(outputPath,
                  Envelope(k.salt, randomIv, Cipher(k.key, randomIv, fileContent)))

Encryption_decryptFile_Unchecked(filePath, encryptionKey, outputPathOpt) ==
  IF filePath \notin DOMAIN cfs
  THEN CodecError(<<"File not found">>)
  ELSE LET outputPath == DecOutputPath(filePath, outputPathOpt)
           encryptedData == cfs[filePath]
           salt == Slice(encryptedData, 0, 16)
           iv == Slice(encryptedData, 16, 32)
           encryptedContent == Slice(encryptedData, 32, Len(encryptedData))
           k == generateKey(encryptionKey, {salt}, <<>>)
       IN IF Len(iv) # IvLen
          THEN CodecError(<<"Failed to decrypt file",
                            "Invalid initialization vector">>)
          ELSE CodecOk(outputPath, Decipher(k.key, iv, encryptedContent).data)

\* as decryptFile, but the output file is created before decipher.final()
\* has accepted the ciphertext
Encryption_decryptFile_WriteFirst(filePath, encryptionKey, outputPathOpt) ==
  IF filePath \notin DOMAIN cfs
  THEN CodecError(<<"File not found">>)
  ELSE LET outputPath == DecOutputPath(filePath, outputPathOpt)
           encryptedData == cfs[filePath]
           salt == Slice(encryptedData, 0, 16)
           iv == Slice(encryptedData, 16, 32)
           encryptedContent == Slice(encryptedData, 32, Len(encryptedData))
           k == generateKey(encryptionKey, {salt}, <<>>)
       IN IF Len(iv) # IvLen
          THEN CodecError(<<"Failed to decrypt file",
                            "Invalid initialization vector">>)
          ELSE LET d == Decipher(k.key, iv, encryptedContent)
               IN IF d.ok THEN CodecOk(outputPath, d.data)
                  ELSE [CodecError(
                          <<"Failed to decrypt file",
                            "Decryption failed, possibly due to incorrect password">>
                            \o d.msg)
                        EXCEPT !.wrote = TRUE, !.value = outputPath]

Encryption_decryptFile(filePath, encryptionKey, outputPathOpt) ==
  IF filePath \notin DOMAIN cfs
  THEN CodecError(<<"File not found">>)
  ELSE LET outputPath == DecOutputPath(filePath, outputPathOpt)
           encryptedData == cfs[filePath]
           salt == Slice(encryptedData, 0, 16)
           iv == Slice(encryptedData, 16, 32)
           encryptedContent == Slice(encryptedData, 32, Len(encryptedData))
           k == generateKey(encryptionKey, {salt}, <<>>)
       IN IF Len(iv) # IvLen
          THEN CodecError(<<"Failed to decrypt file",
                            "Invalid initialization vector">>)
          ELSE LET d == Decipher(k.key, iv, encryptedContent)
               IN IF d.ok THEN CodecOk(outputPath, d.data)
                  ELSE CodecError(
                         <<"Failed to decrypt file",
                           "Decryption failed, possibly due to incorrect password">>
                           \o d.msg)

(***************************************************************************)
(* The codec's calls and what they are called with.                        *)
(***************************************************************************)
PlainPath == <<"plain", "txt">>
MissingPath == <<"missing">>

\* bytes i -> (a * i + b) mod 256
Fill(n, a, b) == [i \in 1..n |-> (a * i + b) % 256]

\* the plaintexts: every length up to MaxLen, of varied bytes and of bytes
\* that all equal a padding value
Plaintexts ==
  {Fill(n, 7, 65) : n \in 0..MaxLen} \cup {Fill(BlockSize, 0, BlockSize)}

\* "pw1", "pw1\0" and "pw2" as UTF-8 bytes
Passwords == {<<112, 119, 49>>, <<112, 119, 49, 0>>, <<112, 119, 50>>}

\* the values crypto.randomBytes(16) returns
RandomDraws == {Fill(16, 17, 3), Fill(16, 29, 101)}

\* the callers here leave options.outputPath out
OutputOpts == {Null}
EncInputPaths == {PlainPath, MissingPath}
DecInputPaths == {Append(PlainPath, "enc"), PlainPath, MissingPath}

\* a generateKey call: its arguments and the { key, salt } it returned
KeyRecord(password, saltOpt, k) ==
  [op |-> "generateKey", password |-> password, saltOpt |-> saltOpt,
   key |-> k.key, salt |-> k.salt]

NoKeyCall ==
  [op |-> "none", password |-> <<>>, saltOpt |-> {}, key |-> <<>>,
   salt |-> <<>>]

\* the salts callers supply: one read from an envelope's header
SuppliedSalts == {{}} \cup {{d} : d \in RandomDraws}

GenerateKey(password, saltOpt, random) ==
  /\ klast' = KeyRecord(password, saltOpt,
                        generateKey(password, saltOpt, random))
  /\ kprev' = klast
  /\ UNCHANGED <<resolverVars, codecVars, concVars, listVars>>

NextKey ==
  \E w \in Passwords, o \in SuppliedSalts, d \in RandomDraws :
    GenerateKey(w, o, d)

CodecRecord(op, filePath, password, outputPathOpt, randomIv, randomSalt, r) ==
  [op |-> op, path |-> filePath, password |-> password,
   iv |-> randomIv, salt |-> randomSalt,
   outOpt |-> outputPathOpt, status |-> r.status, value |-> r.value,
   msg |-> r.msg, wrote |-> r.wrote, written |-> r.written,
   from |-> IF filePath \in DOMAIN origin THEN {origin[filePath]} ELSE {}]

CodecNoOp ==
  [op |-> "none", path |-> Null, password |-> <<>>, outOpt |-> Null,
   iv |-> <<>>, salt |-> <<>>,
   status |-> "none", value |-> Null, msg |-> <<>>, wrote |-> FALSE,
   written |-> <<>>, from |-> {}]

EncryptFile(filePath, encryptionKey, outputPathOpt, randomIv, randomSalt) ==
  \E r \in {Encryption_encryptFile(filePath, encryptionKey, outputPathOpt,
                                   randomIv, randomSalt)} :
    /\ cfs' = IF r.wrote THEN MapSet(cfs, r.value, r.written) ELSE cfs
    /\ origin' = IF r.wrote
                 THEN MapSet(origin, r.value,
                             [plain |-> cfs[filePath],
                              password |-> encryptionKey])
                 ELSE origin
    \* a call that fs.access stops draws no random bytes
    /\ clast' = CodecRecord("encrypt", filePath, encryptionKey, outputPathOpt,
                            IF r.wrote THEN randomIv ELSE <<>>,
                            IF r.wrote THEN randomSalt ELSE <<>>, r)
    /\ UNCHANGED <<resolverVars, concVars, keyVars, listVars>>

DecryptFile(filePath, encryptionKey, outputPathOpt) ==
  \E r \in {Encryption_decryptFile(filePath, encryptionKey, outputPathOpt)} :
    /\ cfs' = IF r.wrote THEN MapSet(cfs, r.value, r.written) ELSE cfs
    /\ origin' = IF r.wrote THEN MapDelete(origin, r.value) ELSE origin
    /\ clast' = CodecRecord("decrypt", filePath, encryptionKey,
                            outputPathOpt, <<>>, <<>>, r)
    /\ UNCHANGED <<resolverVars, concVars, keyVars, listVars>>

NextCodec ==
  \/ \E p \in EncInputPaths, w \in Passwords, o \in OutputOpts,
        iv \in RandomDraws, salt \in RandomDraws :
        EncryptFile(p, w, o, iv, salt)
  \/ \E p \in DecInputPaths, w \in Passwords, o \in OutputOpts :
        DecryptFile(p, w, o)

(***************************************************************************)
(* The record of a completed call: who was called (layer "fm" is the       *)
(* resolver, "storage" the capability called directly), with what, the     *)
(* outcome, and the outcome of the storage call underneath.                *)
(***************************************************************************)
OpRecord(layer, op, arg, dest, opt, flag, content, status, value, msg, sCalls, sArg, s, regChanged, replaced) ==
  [layer |-> layer, op |-> op, arg |-> arg, dest |-> dest, opt |-> opt,
   flag |-> flag, content |-> content, status |-> status, value |-> value, msg |-> msg,
   sCalls |-> sCalls, sArg |-> sArg,
   sStatus |-> s.status, sValue |-> s.value, sMsg |-> s.msg,
   pCalls |-> s.pCalls, pErr |-> s.pErr, fCalls |-> s.fCalls,
   fOk |-> s.fOk, fValue |-> s.fValue, written |-> s.written,
   regChanged |-> regChanged, replaced |-> replaced]

NoOp == OpRecord("none", "none", Null, Null, Null, {}, Null, "none", Null, <<>>,
                 0, Null, NoStorageCall, FALSE, FALSE)

Called ==
  /\ steps' = steps + 1
  /\ primaryErrSeen' = (primaryErrSeen \/ last.pErr)

ApplyStorage(s, destination) ==
  /\ files' = s.files
  /\ ipfsBlocks' = s.blocks
  /\ ipfsPins' = s.pins
  /\ usingMock' = s.usingMock
  /\ fs' = IF s.written # Null THEN [fs EXCEPT ![destination] = s.written]
           ELSE fs
  /\ UNCHANGED <<ipfs, storageType, generation, codecVars, keyVars,
                 listVars>>

ApplyFM(op, arg, dest, opt, flag, content, r) ==
  /\ ApplyStorage(r.s, dest)
  /\ fileRegistry' = r.registry
  /\ nextUuid' = r.nextUuid
  /\ UNCHANGED concVars
  /\ liveIds' = IF op = "upload" /\ r.status = "ok" THEN liveIds \cup {r.value}
                ELSE IF op = "delete" /\ r.status = "ok" THEN liveIds \ {arg}
                ELSE liveIds
  /\ Called
  /\ last' = OpRecord("fm", op, arg, dest, opt, flag, content, r.status,
                      r.value, r.msg, r.sCalls, r.sArg, r.s,
                      r.registry # fileRegistry,
                      /\ op = "upload" /\ r.status = "ok"
                      /\ r.value \in DOMAIN fileRegistry)

ApplyDirect(op, arg, dest, opt, content, s) ==
  /\ ApplyStorage(s, dest)
  /\ UNCHANGED <<fileRegistry, nextUuid, liveIds, concVars>>
  /\ Called
  /\ last' = OpRecord("storage", op, arg, dest, opt, {}, content, s.status,
                      s.value, s.msg, 1, arg, s, FALSE, FALSE)

(***************************************************************************)
(* Construction: new Storage('ipfs', config) either creates the client or  *)
(* (module missing, create() throwing) runs _initializeMockStorage; new    *)
(* FileManager(storage) starts with an empty registry.                     *)
(***************************************************************************)
CodecIdle ==
  /\ origin = EmptyMap
  /\ clast = CodecNoOp
  /\ klast = NoKeyCall
  /\ kprev = NoKeyCall

\* no call is in flight
NoTasks ==
  /\ tasks = EmptyMap
  /\ serial = EmptyMap

\* a registry as constructed, and no listFiles() call yet
NoListing == [taken |-> FALSE, live |-> FALSE, array |-> <<>>]
ListIdle ==
  /\ objects = <<>>
  /\ registryMap = <<>>
  /\ listing = NoListing

Init ==
  /\ cfs = EmptyMap
  /\ CodecIdle
  /\ ListIdle
  /\ NoTasks
  /\ fs \in [Paths -> Contents \cup {NoFile}]
  /\ fs[<<"fileA">>] = <<"data", 0>>
  /\ \A d \in DestPaths : fs[d] = NoFile
  /\ storageType = IpfsType
  /\ \/ usingMock = FALSE /\ ipfs = <<"client">>
     \/ usingMock = TRUE /\ ipfs = Null
  /\ files = EmptyMap
  /\ ipfsBlocks = {}
  /\ ipfsPins = {}
  /\ fileRegistry = EmptyMap
  /\ nextUuid = 0
  /\ last = NoOp
  /\ primaryErrSeen = FALSE
  /\ steps = 0
  /\ liveIds = {}
  /\ generation = 1

\* the caller's environment writes a source file
WriteFile(path, content) ==
  /\ fs' = [fs EXCEPT ![path] = content]
  /\ fs[path] # content
  /\ steps < MaxSteps
  /\ steps' = steps + 1
  /\ UNCHANGED <<usingMock, ipfs, storageType, files, ipfsBlocks, ipfsPins,
                 fileRegistry, nextUuid, last, primaryErrSeen, liveIds,
                 generation, codecVars, concVars, keyVars, listVars>>

UploadFile(filePath, fileIdOpt, encrypted, tryOk, fsOk) ==
  /\ steps < MaxSteps
  /\ fileIdOpt = Null => nextUuid < MaxUuid
  /\ \E r \in {FM_uploadFile(filePath, fileIdOpt, encrypted, tryOk, fsOk)} :
       ApplyFM("upload", filePath, Null, fileIdOpt, encrypted, fs[filePath],
               r)

DownloadFile(fileId, destination, tryOk, fsOk) ==
  /\ steps < MaxSteps
  /\ \E r \in {FM_downloadFile(fileId, destination, tryOk, fsOk)} :
       ApplyFM("download", fileId, destination, Null, {}, Null, r)

DeleteFile(fileId, tryOk, fsOk) ==
  /\ steps < MaxSteps
  /\ \E r \in {FM_deleteFile(fileId, tryOk, fsOk)} :
       ApplyFM("delete", fileId, Null, Null, {}, Null, r)

ListFiles ==
  /\ steps < MaxSteps
  /\ \E r \in {FM_listFiles} : ApplyFM("list", Null, Null, Null, {}, Null, r)

StorageUpload(filePath, fileIdOpt, tryOk, fsOk) ==
  /\ steps < MaxSteps
  /\ \E s \in {Storage_uploadFile(filePath, fileIdOpt, tryOk, fsOk)} :
       ApplyDirect("upload", filePath, Null, fileIdOpt, fs[filePath], s)

StorageDownload(fileId, destination, tryOk, fsOk) ==
  /\ steps < MaxSteps
  /\ \E s \in {Storage_downloadFile(fileId, destination, tryOk, fsOk)} :
       ApplyDirect("download", fileId, destination, Null, Null, s)

StorageDelete(fileId, tryOk, fsOk) ==
  /\ steps < MaxSteps
  /\ \E s \in {Storage_deleteFile(fileId, tryOk, fsOk)} :
       ApplyDirect("delete", fileId, Null, Null, Null, s)

StorageList(tryOk) ==
  /\ steps < MaxSteps
  /\ \E s \in {Storage_listFiles(tryOk)} :
       ApplyDirect("list", Null, Null, Null, Null, s)

(***************************************************************************)
(* What a call meets: "up" (the primary answers, the local filesystem      *)
(* works), "down" (the primary raises an error, the local filesystem       *)
(* works), "broken" (the primary raises an error and so does the local     *)
(* filesystem call of the fallback).                                       *)
(***************************************************************************)
Envs == {"up", "down", "broken"}
TryOk(e) == e = "up"
FsOk(e) == e # "broken"

\* the options objects callers pass to uploadFile: {}, {fileId: c},
\* {encrypted: true} and {encrypted: false}
UploadOptions ==
  {[fileId |-> o, encrypted |-> {}] : o \in FileIdOpts}
    \cup {[fileId |-> Null, encrypted |-> {b}] : b \in BOOLEAN}

\* one identifier nothing was ever stored or registered under
UnknownId == <<"unknown", 0>>

\* the identifiers a caller can hold: registered ones, stored ones, and one
\* that is neither
TargetIds ==
  DOMAIN fileRegistry \cup DOMAIN files
    \cup {IpfsCid(c) : c \in ipfsBlocks} \cup {UnknownId}

Next ==
  \/ \E p \in SrcPaths, c \in Contents : WriteFile(p, c)
  \/ \E p \in SrcPaths, o \in UploadOptions, e \in Envs :
        UploadFile(p, o.fileId, o.encrypted, TryOk(e), FsOk(e))
  \/ \E i \in TargetIds, d \in DestPaths, e \in Envs :
        DownloadFile(i, d, TryOk(e), FsOk(e))
  \/ \E i \in TargetIds, e \in Envs : DeleteFile(i, TryOk(e), FsOk(e))
  \/ ListFiles

\* options.fileId as callers of Storage.uploadFile pass it: absent, an id of
\* their own, or the content identifier the primary gave them earlier
StorageFileIdOpts == FileIdOpts \cup {IpfsCid(c) : c \in ipfsBlocks}

NextStorage ==
  \/ \E p \in SrcPaths, c \in Contents : WriteFile(p, c)
  \/ \E p \in SrcPaths, o \in StorageFileIdOpts, e \in Envs :
        StorageUpload(p, o, TryOk(e), FsOk(e))
  \/ \E i \in TargetIds, d \in DestPaths, e \in Envs :
        StorageDownload(i, d, TryOk(e), FsOk(e))
  \/ \E i \in TargetIds, e \in Envs : StorageDelete(i, TryOk(e), FsOk(e))
  \/ \E e \in Envs : StorageList(TryOk(e))

Spec == Init /\ [][Next]_vars

StorageSpec == Init /\ [][NextStorage]_vars

\* the codec alone: one plaintext file, and a resolver nobody calls
InitCodec ==
  /\ \E p \in Plaintexts : cfs = MapSet(EmptyMap, PlainPath, p)
  /\ CodecIdle
  /\ ListIdle
  /\ NoTasks
  /\ fs = [p \in Paths |-> NoFile]
  /\ storageType = IpfsType /\ usingMock = TRUE /\ ipfs = Null
  /\ files = EmptyMap /\ ipfsBlocks = {} /\ ipfsPins = {}
  /\ fileRegistry = EmptyMap /\ nextUuid = 0
  /\ last = NoOp /\ primaryErrSeen = FALSE /\ steps = 0 /\ liveIds = {}
  /\ generation = 1

CodecSpec == InitCodec /\ [][NextCodec]_vars

\* generateKey alone
KeySpec == Init /\ [][NextKey]_vars

(***************************************************************************)
(* Construction as a step: nothing is constructed at the start, new        *)
(* Storage(...) or new AetherDrive({storageType}) is called until one      *)
(* returns, and the object it returned is then operated.                   *)
(***************************************************************************)
\* new AetherDrive(options): storageType = options.storageType, 'ipfs' when
\* absent, handed to new Storage; an error of that constructor leaves it
AetherDrive_constructor(storageTypeOpt, moduleLoaded, createOk) ==
  Storage_constructor(storageTypeOpt, moduleLoaded, createOk)

Constructors == {"storage", "drive"}

Construct(class, storageTypeOpt, moduleLoaded, createOk) ==
  /\ steps < MaxSteps
  /\ storageType = Null
  /\ \E o \in {IF class = "drive"
                THEN AetherDrive_constructor(storageTypeOpt, moduleLoaded,
                                             createOk)
                ELSE Storage_constructor(storageTypeOpt, moduleLoaded,
                                         createOk)} :
       /\ storageType' = o.storageType
       /\ usingMock' = o.usingMock
       /\ ipfs' = o.ipfs
       /\ last' = OpRecord(class, "construct", storageTypeOpt, Null, Null,
                           {}, Null, o.status, Null, o.msg, 0, Null,
                           NoStorageCall, FALSE, FALSE)
  /\ Called
  /\ UNCHANGED <<fs, files, ipfsBlocks, ipfsPins, fileRegistry, nextUuid,
                 liveIds, generation, codecVars, concVars, keyVars,
                 listVars>>

InitBuild ==
  /\ cfs = EmptyMap
  /\ CodecIdle
  /\ ListIdle
  /\ NoTasks
  /\ fs \in [Paths -> Contents \cup {NoFile}]
  /\ fs[<<"fileA">>] = <<"data", 0>>
  /\ \A d \in DestPaths : fs[d] = NoFile
  /\ storageType = Null /\ usingMock = FALSE /\ ipfs = Null
  /\ files = EmptyMap /\ ipfsBlocks = {} /\ ipfsPins = {}
  /\ fileRegistry = EmptyMap /\ nextUuid = 0
  /\ last = NoOp /\ primaryErrSeen = FALSE /\ steps = 0 /\ liveIds = {}
  /\ generation = 1

\* a method can be called only on an object that exists
Constructed == storageType # Null

NextBuild ==
  \/ \E k \in Constructors, t \in StorageTypeOpts, m \in BOOLEAN,
        c \in BOOLEAN : Construct(k, t, m, c)
  \/ \E p \in SrcPaths, o \in StorageFileIdOpts, e \in Envs :
        Constructed /\ StorageUpload(p, o, TryOk(e), FsOk(e))
  \/ \E i \in TargetIds, d \in DestPaths, e \in Envs :
        Constructed /\ StorageDownload(i, d, TryOk(e), FsOk(e))
  \/ \E i \in TargetIds, e \in Envs :
        Constructed /\ StorageDelete(i, TryOk(e), FsOk(e))
  \/ \E e \in Envs : Constructed /\ StorageList(TryOk(e))

BuildSpec == InitBuild /\ [][NextBuild]_vars

(***************************************************************************)
(* A second resolver: new FileManager(storage) on the Storage an earlier   *)
(* FileManager was using, which is dropped.                                *)
(***************************************************************************)
NewFileManager ==
  /\ steps < MaxSteps
  /\ fileRegistry' = FM_constructor.registry
  /\ liveIds' = {}
  /\ generation' = generation + 1
  /\ last' = OpRecord("fm", "construct", Null, Null, Null, {}, Null, "ok",
                      Null, <<>>, 0, Null, NoStorageCall,
                      fileRegistry # EmptyMap, FALSE)
  /\ Called
  /\ UNCHANGED <<fs, usingMock, ipfs, storageType, files, ipfsBlocks,
                 ipfsPins, nextUuid, codecVars, concVars, keyVars, listVars>>

NextRestart ==
  \/ Next
  \/ NewFileManager

RestartSpec == Init /\ [][NextRestart]_vars

(***************************************************************************)
(* The resolver over a storage provider that may decline a delete: an      *)
(* object with Storage's interface whose deleteFile, instead of deleting,  *)
(* can resolve to false and change nothing (the interface is               *)
(* Promise<boolean>, "true if deletion was successful").                   *)
(***************************************************************************)
\* the outcome of a deleteFile the provider declined
Declined == [NoBackend(<<>>) EXCEPT !.status = "ok", !.value = FALSE]

\* deleteFile(fileId) on the resolver, the provider declining
DeleteFileDeclined(fileId) ==
  /\ steps < MaxSteps
  /\ \E r \in {FM_deleteFile_After(fileId, Declined)} :
       ApplyFM("delete", fileId, Null, Null, {}, Null, r)

NextProvider ==
  \/ Next
  \/ \E i \in TargetIds : DeleteFileDeclined(i)

ProviderSpec == Init /\ [][NextProvider]_vars

(***************************************************************************)
(* Properties of the resolver and of the storage capability.               *)
(***************************************************************************)
Mentions(msg, word) == \E i \in DOMAIN msg : msg[i] = word

IsCall(layer, op) == last.layer = layer /\ last.op = op

\* what the storage capability holds under an identifier, Null for nothing
StoredUnder(id) ==
  IF id \in DOMAIN files THEN files[id]
  ELSE IF \E c \in ipfsBlocks : IpfsCid(c) = id
       THEN CHOOSE c \in ipfsBlocks : IpfsCid(c) = id
       ELSE Null

\* C3: once uploadFile(path) has returned id, the next call, downloadFile(id,
\* dest), when it returns, has written to dest the content path had at the
\* upload, whichever backend served either call.
C3_ResolverIdentity ==
  [][(/\ IsCall("fm", "upload") /\ last.status = "ok"
      /\ last'.layer = "fm" /\ last'.op = "download"
      /\ last'.arg = last.value /\ last'.status = "ok")
     => last'.written = last.content]_vars

\* C4: after deleteFile(id) has returned successfully, listFiles() holds no
\* record whose id is id.
C4_DeletedAbsent ==
  (IsCall("fm", "delete") /\ last.status = "ok")
    => \A r \in FM_listFiles.value : r.id # last.arg

\* C4 witness: a successful deleteFile of a registered identifier
C4_Witness ==
  IsCall("fm", "delete") /\ last.status = "ok" /\ last.regChanged

\* C5: uploadFile changes the registry only when the storage upload has
\* returned a backend identifier, which the inserted record then carries; when
\* the storage upload fails, uploadFile throws and the registry is unchanged.
C5_NoPartialRecord ==
  IsCall("fm", "upload")
    => /\ last.regChanged
            => /\ last.sCalls = 1 /\ last.sStatus = "ok" /\ last.status = "ok"
               /\ last.value \in DOMAIN fileRegistry
               /\ fileRegistry[last.value].storageId = last.sValue
       /\ last.sStatus = "error" => last.status = "error"
       /\ last.status = "error" => ~last.regChanged

\* C5 witness: an uploadFile whose storage upload failed
C5_Witness ==
  /\ IsCall("fm", "upload") /\ last.sCalls = 1 /\ last.sStatus = "error"
  /\ last.status = "error"

\* C6: downloadFile(x, dest) for an x the registry does not hold calls the
\* storage download exactly once, with x itself, and returns or throws what
\* that call returned or threw; no "unknown id" error is raised.
C6_PassThroughDownload ==
  (IsCall("fm", "download") /\ last.arg \notin DOMAIN fileRegistry)
    => /\ last.sCalls = 1
       /\ last.sArg = last.arg
       /\ last.status = last.sStatus
       /\ last.status = "ok" => last.value = last.sValue
       /\ last.status = "error"
            => last.msg = <<"Failed to download file">> \o last.sMsg
       /\ ~Mentions(last.msg, "unknown id")

\* C6 witness: a successful downloadFile by a raw backend identifier that is
\* stored but not registered
C6_Witness ==
  /\ IsCall("fm", "download") /\ last.arg \notin DOMAIN fileRegistry
  /\ last.arg \in DOMAIN files /\ last.status = "ok"

\* C7: when the primary raises an error during a Storage call, the local
\* fallback serves the same call, the caller gets the fallback's outcome, and
\* the primary's error is not in what the caller sees.
C7_FallbackOnPrimaryError ==
  last.pErr
    => /\ last.fCalls = 1
       /\ last.sStatus = (IF last.fOk THEN "ok" ELSE "error")
       /\ last.fOk => last.sValue = last.fValue
       /\ ~Mentions(last.sMsg, "IPFS error")

\* C7 witness: a Storage listFiles whose primary failed and that returned
C7_Witness ==
  IsCall("storage", "list") /\ last.pErr /\ last.status = "ok"

\* C8 as stated: every Storage call that reaches a backend attempts the
\* primary, whatever happened at construction or in earlier calls.
C8_AlwaysPrimaryFirst ==
  (last.layer = "storage" /\ last.pCalls + last.fCalls > 0)
    => last.pCalls = 1

\* C8: a Storage call that reaches a backend attempts the primary exactly
\* when the client was created at construction, whatever happened in earlier
\* calls; without a client no call attempts the primary.
C8_NoStickyFallback ==
  (last.layer = "storage" /\ last.pCalls + last.fCalls > 0)
    => (last.pCalls = 1 <=> ipfs # Null)

\* C8 witness: a call that attempted the primary after an earlier call had met
\* a primary error and had been served by the fallback
C8_Witness ==
  last.layer = "storage" /\ primaryErrSeen /\ last.pCalls = 1

\* C9 as stated: in one operation the primary is invoked at most once, the
\* fallback at most once and only after the primary raised an error, and the
\* operation ends by returning or throwing.
C9_FallbackOnlyAfterError ==
  last.op # "none"
    => /\ last.pCalls <= 1 /\ last.fCalls <= 1
       /\ last.fCalls = 1 => last.pErr
       /\ last.status \in {"ok", "error"}

\* C9: in one operation the storage is called at most once, the primary is
\* invoked at most once, the fallback at most once, and the fallback only
\* after the primary raised an error or on a Storage constructed without a
\* primary client; the operation ends by returning or throwing.
C9_NoRetry ==
  last.op # "none"
    => /\ last.sCalls <= 1 /\ last.pCalls <= 1 /\ last.fCalls <= 1
       /\ last.fCalls = 1 => (last.pErr \/ ipfs = Null)
       /\ last.pErr => last.pCalls = 1
       /\ last.status \in {"ok", "error"}

\* C9 witness: a resolver download that met a primary error and was served by
\* the fallback
C9_Witness ==
  /\ IsCall("fm", "download") /\ last.pErr /\ last.fCalls = 1
  /\ last.status = "ok"

\* C10: a Storage downloadFile(id, dest) that returns has written exactly
\* what is stored under id; it does not return for an id nothing is stored
\* under.
C10_DownloadContract ==
  (IsCall("storage", "download") /\ last.status = "ok")
    => /\ StoredUnder(last.arg) # Null
       /\ last.written = StoredUnder(last.arg)

(***************************************************************************)
(* The envelope codec.                                                     *)
(***************************************************************************)
\* the last call decrypted an envelope that encryptFile wrote
DecryptedEnvelope == clast.op = "decrypt" /\ clast.from # {}

\* C1: round trip: decryptFile applied with password w to the envelope that
\* encryptFile wrote for plaintext p under w succeeds and writes exactly p.
C1_RoundTrip ==
  DecryptedEnvelope =>
    \A o \in clast.from :
      o.password = clast.password =>
        /\ clast.status = "ok"
        /\ clast.wrote
        /\ clast.written = o.plain
        /\ cfs[clast.value] = o.plain

\* a round trip of a plaintext longer than one block
C1_Witness ==
  /\ DecryptedEnvelope
  /\ \E o \in clast.from : o.password = clast.password /\ Len(o.plain) > BlockSize
  /\ clast.status = "ok"

\* the last call decrypted an envelope with a password other than the one it
\* was encrypted under
WrongPassword ==
  DecryptedEnvelope /\ \A o \in clast.from : o.password # clast.password

\* C2 as stated: decrypting an envelope produced with password w using any
\* other password fails with 'Failed to decrypt file' and returns no output
\* path.
C2_WrongPasswordFails ==
  WrongPassword =>
    /\ clast.status = "error"
    /\ Mentions(clast.msg, "Failed to decrypt file")
    /\ clast.value = Null

\* C2: decrypting an envelope produced with password w using another password
\* fails with 'Failed to decrypt file', returns no output path and writes
\* nothing, unless the cipher keyed from that password and the envelope's salt
\* accepts the ciphertext's padding; then the call returns the output path.
C2_WrongPasswordRejected ==
  WrongPassword =>
    LET env == cfs[clast.path]
        d == Decipher(Pbkdf2(clast.password, Slice(env, 0, SaltLen)),
                      Slice(env, SaltLen, SaltLen + IvLen),
                      Slice(env, SaltLen + IvLen, Len(env)))
    IN IF d.ok
       THEN clast.status = "ok" /\ clast.value # Null
       ELSE /\ clast.status = "error"
            /\ Mentions(clast.msg, "Failed to decrypt file")
            /\ clast.value = Null
            /\ ~clast.wrote

\* a wrong password that the cipher rejects
C2_Witness ==
  /\ WrongPassword
  /\ clast.status = "error"
  /\ Mentions(clast.msg, "bad decrypt")

(***************************************************************************)
(* The resolver's registry.                                                *)
(***************************************************************************)
\* the step is a call: WriteFile, the one step that is not, writes a source
\* file, and no call does
CallStep == \A p \in SrcPaths : fs'[p] = fs[p]

\* the step is a completed resolver call of method op
FMStep(op) == last'.layer = "fm" /\ last'.op = op /\ CallStep

\* the identifiers generateFileId has returned so far
GeneratedIds == {UuidOf(n) : n \in 1..nextUuid}

\* C11: uploadFile(path, {fileId: c}) returns exactly c and registers the
\* record under c; uploadFile without fileId returns a generated identifier
\* that differs from every identifier generated before and from every key of
\* the registry at the call, and registers the record under it.
C11_LogicalIdChoice ==
  [][(FMStep("upload") /\ last'.status = "ok")
     => /\ last'.value \in DOMAIN fileRegistry'
        /\ fileRegistry'[last'.value].id = last'.value
        /\ last'.opt # Null => last'.value = last'.opt
        /\ last'.opt = Null
             => /\ last'.value \notin DOMAIN fileRegistry
                /\ last'.value \notin GeneratedIds]_vars

\* a second generated identifier, handed out while the registry holds a
\* caller-chosen key and the first generated one
C11_Witness ==
  /\ IsCall("fm", "upload") /\ last.status = "ok" /\ last.opt = Null
  /\ nextUuid = 2
  /\ CustomIds \subseteq DOMAIN fileRegistry
  /\ GeneratedIds \subseteq DOMAIN fileRegistry

\* C12: listFiles() returns exactly one record per logical id that has been
\* uploaded successfully and not deleted successfully since, and nothing
\* else.
C12_RegistryContent ==
  LET listed == FM_listFiles.value
  IN /\ {r.id : r \in listed} = liveIds
     /\ Cardinality(listed) = Cardinality(liveIds)

\* listFiles() returning two entries, of two uploads of the same content
\* under distinct logical ids
C12_Witness ==
  /\ IsCall("fm", "list")
  /\ Cardinality(last.value) = 2
  /\ \E a \in last.value, b \in last.value :
       a.id # b.id /\ a.storageId = b.storageId

\* C13: deleteFile(x) for an x that is not a key of the registry calls the
\* storage delete once, with x itself, leaves the registry unchanged, and
\* returns true whenever the storage delete returns true.
C13_PassThroughDelete ==
  [][(FMStep("delete") /\ last'.arg \notin DOMAIN fileRegistry)
     => /\ last'.sCalls = 1
        /\ last'.sArg = last'.arg
        /\ fileRegistry' = fileRegistry
        /\ last'.sStatus = "ok"
             => /\ last'.status = "ok"
                /\ last'.value = last'.sValue
                /\ last'.value = TRUE]_vars

\* a successful deleteFile of an identifier that is not registered, while
\* the registry holds a record
C13_Witness ==
  /\ IsCall("fm", "delete") /\ last.status = "ok"
  /\ last.arg \notin liveIds
  /\ ~last.regChanged
  /\ last.fCalls + last.pCalls > 0
  /\ DOMAIN fileRegistry # {}

(***************************************************************************)
(* The storage capability's delete.                                        *)
(***************************************************************************)
\* the step is a completed direct Storage call of method op
StorageStep(op) == last'.layer = "storage" /\ last'.op = op /\ CallStep

Pinned(id) == \E c \in ipfsPins : IpfsCid(c) = id

\* nothing is stored under id: the local map has no entry and the primary
\* holds no pin
NotStored(id) == id \notin DOMAIN files /\ ~Pinned(id)

\* the last call was a successful Storage deleteFile and the step is a
\* Storage deleteFile of the same id
SecondDelete ==
  /\ IsCall("storage", "delete") /\ last.status = "ok"
  /\ StorageStep("delete") /\ last'.arg = last.arg

C15_IdStateMachine ==
  [][/\ \A id \in (DOMAIN fileRegistry') \ (DOMAIN fileRegistry) :
          FMStep("upload") /\ last'.status = "ok" /\ last'.value = id
     /\ \A id \in (DOMAIN fileRegistry) \ (DOMAIN fileRegistry') :
          FMStep("delete") /\ last'.status = "ok" /\ last'.arg = id
     /\ (FMStep("download") \/ FMStep("list"))
          => DOMAIN fileRegistry' = DOMAIN fileRegistry]_vars

\* a failed downloadFile of a registered id, which stays registered
C15_Witness ==
  /\ IsCall("fm", "download") /\ last.status = "error"
  /\ last.arg \in DOMAIN fileRegistry

(***************************************************************************)
(* Calls of the resolver in flight together.  JavaScript runs a call up to *)
(* its next await without interruption, so a call is a sequence of steps   *)
(* cut at its awaits: uploadFile is fs.access, the storage upload, then    *)
(* fs.stat with the registry write after it; deleteFile is the registry    *)
(* lookup, the storage delete, then the registry delete.                   *)
(***************************************************************************)
Tasks == {"upA", "upB", "delC", "delD"}

\* the calls made: two uploads and two deletes, of four different logical
\* ids; delE is a delete of the logical id upB uploads under
CallOf(t) ==
  CASE t = "upA" -> [op |-> "upload", path |-> <<"fileA">>, fileId |-> Null]
    [] t = "upB" -> [op |-> "upload", path |-> <<"fileB">>,
                     fileId |-> <<"custom", 1>>]
    [] t = "delC" -> [op |-> "delete", path |-> Null, fileId |-> UuidOf(1)]
    [] t = "delD" -> [op |-> "delete", path |-> Null, fileId |-> UuidOf(2)]
    [] t = "delE" -> [op |-> "delete", path |-> Null,
                      fileId |-> <<"custom", 1>>]

NotStarted ==
  [pc |-> "start", known |-> FALSE, storageId |-> Null, status |-> "none",
   value |-> Null]

\* the record uploadFile writes into the registry
RegistryRecord(fileId, storageId, filePath) ==
  [id |-> fileId, storageId |-> storageId, name |-> filePath,
   encrypted |-> FALSE]

\* the registry before the calls: two earlier uploads of the same content
RegistryBefore(storageId) ==
  [k \in {UuidOf(1), UuidOf(2)} |->
     RegistryRecord(k, storageId, <<"fileA">>)]

\* two sequential uploads of fileA have completed, on either kind of Storage,
\* and the four calls are made
InitConc ==
  /\ cfs = EmptyMap
  /\ CodecIdle
  /\ ListIdle
  /\ fs \in [Paths -> Contents \cup {NoFile}]
  /\ fs[<<"fileA">>] = <<"data", 0>>
  /\ \A d \in DestPaths : fs[d] = NoFile
  /\ storageType = IpfsType
  /\ \/ /\ usingMock = FALSE /\ ipfs = <<"client">>
        /\ files = EmptyMap
        /\ ipfsBlocks = {<<"data", 0>>} /\ ipfsPins = {<<"data", 0>>}
        /\ fileRegistry = RegistryBefore(IpfsCid(<<"data", 0>>))
     \/ /\ usingMock = TRUE /\ ipfs = Null
        /\ files = MapSet(EmptyMap, _generateMockFileId(<<"data", 0>>),
                          <<"data", 0>>)
        /\ ipfsBlocks = {} /\ ipfsPins = {}
        /\ fileRegistry = RegistryBefore(_generateMockFileId(<<"data", 0>>))
  /\ nextUuid = 2
  /\ liveIds = DOMAIN fileRegistry
  /\ generation = 1
  /\ last = NoOp /\ primaryErrSeen = FALSE /\ steps = 0
  /\ tasks = [t \in Tasks |-> NotStarted]
  /\ serial = fileRegistry

Failed(t) ==
  [tasks EXCEPT ![t].pc = "done", ![t].status = "error"]

ConcFrame == UNCHANGED <<last, primaryErrSeen, steps, liveIds, generation>>
StorageFrame ==
  UNCHANGED <<fs, usingMock, ipfs, storageType, files, ipfsBlocks, ipfsPins,
              codecVars, keyVars, listVars>>

\* await fs.access(filePath)
UploadAccess(t) ==
  /\ CallOf(t).op = "upload" /\ tasks[t].pc = "start"
  /\ tasks' = IF fs[CallOf(t).path] = NoFile THEN Failed(t)
              ELSE [tasks EXCEPT ![t].pc = "accessed"]
  /\ StorageFrame /\ ConcFrame
  /\ UNCHANGED <<fileRegistry, nextUuid, serial>>

\* as UploadStore, but the record is written when the storage upload is
\* made, before it has returned
UploadStore_InsertFirst(t, tryOk, fsOk) ==
  /\ CallOf(t).op = "upload" /\ tasks[t].pc = "accessed"
  /\ \E s \in {Storage_uploadFile(CallOf(t).path, CallOf(t).fileId, tryOk,
                                  fsOk)} :
       /\ ApplyStorage(s, Null)
       /\ tasks' = IF s.status = "error" THEN Failed(t)
                   ELSE [tasks EXCEPT ![t].pc = "stored",
                                      ![t].storageId = s.value]
       /\ \E fileId \in {IF CallOf(t).fileId # Null THEN CallOf(t).fileId
                         ELSE UuidOf(nextUuid + 1)} :
            fileRegistry' = MapSet(fileRegistry, fileId,
                              RegistryRecord(fileId, s.value, CallOf(t).path))
  /\ ConcFrame
  /\ UNCHANGED <<nextUuid, serial>>

\* const storageId = await this.storage.uploadFile(filePath, options)
UploadStore(t, tryOk, fsOk) ==
  /\ CallOf(t).op = "upload" /\ tasks[t].pc = "accessed"
  /\ \E s \in {Storage_uploadFile(CallOf(t).path, CallOf(t).fileId, tryOk,
                                  fsOk)} :
       /\ ApplyStorage(s, Null)
       /\ tasks' = IF s.status = "error" THEN Failed(t)
                   ELSE [tasks EXCEPT ![t].pc = "stored",
                                      ![t].storageId = s.value]
  /\ ConcFrame
  /\ UNCHANGED <<fileRegistry, nextUuid, serial>>

\* fileId = options.fileId || this.generateFileId(); await fs.stat(filePath);
\* this.fileRegistry.set(fileId, {...}); return fileId
UploadRegister(t) ==
  /\ CallOf(t).op = "upload" /\ tasks[t].pc = "stored"
  /\ \E fileId \in {IF CallOf(t).fileId # Null THEN CallOf(t).fileId
                    ELSE UuidOf(nextUuid + 1)} :
       \E record \in {RegistryRecord(fileId, tasks[t].storageId,
                                     CallOf(t).path)} :
         \* generateFileId runs before fs.stat, which rejects for a path
         \* that is no longer there
         /\ nextUuid' = IF CallOf(t).fileId # Null THEN nextUuid
                        ELSE nextUuid + 1
         /\ IF fs[CallOf(t).path] = NoFile
            THEN /\ tasks' = Failed(t)
                 /\ UNCHANGED <<fileRegistry, serial>>
            ELSE /\ fileRegistry' = MapSet(fileRegistry, fileId, record)
                 /\ serial' = MapSet(serial, fileId, record)
                 /\ tasks' = [tasks EXCEPT ![t].pc = "done",
                                           ![t].status = "ok",
                                           ![t].value = fileId]
  /\ StorageFrame /\ ConcFrame

\* const fileInfo = this.fileRegistry.get(fileId), and the storage delete is
\* called with fileInfo.storageId, or with fileId when there is no record
DeleteLookup(t) ==
  /\ CallOf(t).op = "delete" /\ tasks[t].pc = "start"
  /\ \E known \in {CallOf(t).fileId \in DOMAIN fileRegistry} :
       tasks' = [tasks EXCEPT
                   ![t].pc = "looked", ![t].known = known,
                   ![t].storageId =
                      IF known THEN fileRegistry[CallOf(t).fileId].storageId
                      ELSE CallOf(t).fileId]
  /\ StorageFrame /\ ConcFrame
  /\ UNCHANGED <<fileRegistry, nextUuid, serial>>

\* await this.storage.deleteFile(...)
DeleteStore(t, tryOk, fsOk) ==
  /\ CallOf(t).op = "delete" /\ tasks[t].pc = "looked"
  /\ \E s \in {Storage_deleteFile(tasks[t].storageId, tryOk, fsOk)} :
       /\ ApplyStorage(s, Null)
       /\ tasks' = IF s.status = "error" THEN Failed(t)
                   ELSE [tasks EXCEPT ![t].pc = "deleted"]
  /\ ConcFrame
  /\ UNCHANGED <<fileRegistry, nextUuid, serial>>

\* this.fileRegistry.delete(fileId); return result
DeleteUnregister(t) ==
  /\ CallOf(t).op = "delete" /\ tasks[t].pc = "deleted"
  /\ fileRegistry' = IF tasks[t].known
                     THEN MapDelete(fileRegistry, CallOf(t).fileId)
                     ELSE fileRegistry
  /\ serial' = MapDelete(serial, CallOf(t).fileId)
  /\ tasks' = [tasks EXCEPT ![t].pc = "done", ![t].status = "ok",
                            ![t].value = TRUE]
  /\ nextUuid' = nextUuid
  /\ StorageFrame /\ ConcFrame

NextConc ==
  \/ \E t \in Tasks : UploadAccess(t)
  \/ \E t \in Tasks, e \in Envs : UploadStore(t, TryOk(e), FsOk(e))
  \/ \E t \in Tasks : UploadRegister(t)
  \/ \E t \in Tasks : DeleteLookup(t)
  \/ \E t \in Tasks, e \in Envs : DeleteStore(t, TryOk(e), FsOk(e))
  \/ \E t \in Tasks : DeleteUnregister(t)

ConcSpec == InitConc /\ [][NextConc]_vars

\* every call has returned or thrown
AllDone == \A t \in Tasks : tasks[t].pc = "done"

\* an uploadFile call whose storage upload has returned id
UploadReturned(k) ==
  \E t \in Tasks :
    /\ CallOf(t).op = "upload"
    /\ tasks[t].pc = "done" /\ tasks[t].status = "ok"
    /\ tasks[t].value = k
    /\ fileRegistry[k].storageId = tasks[t].storageId

\* C16: for every interleaving at await points of uploadFile and deleteFile
\* calls on pairwise different logical ids, the final registry is the
\* registry of the same calls run one after the other, and the registry
\* never holds a record whose storage upload has not returned successfully.
C16_ConcurrentDifferentIds ==
  /\ AllDone => fileRegistry = serial
  /\ \A k \in DOMAIN fileRegistry :
       \/ k \in DOMAIN RegistryBefore(Null)
            /\ fileRegistry[k].storageId \in
                 {IpfsCid(<<"data", 0>>), _generateMockFileId(<<"data", 0>>)}
       \/ UploadReturned(k)

\* all four calls done: one upload registered, the other failed in the
\* storage, one delete removed its record, the other threw
C16_Witness ==
  /\ AllDone
  /\ \E t \in Tasks, u \in Tasks, d \in Tasks, f \in Tasks :
       /\ CallOf(t).op = "upload" /\ tasks[t].status = "ok"
       /\ CallOf(u).op = "upload" /\ tasks[u].status = "error"
       /\ CallOf(d).op = "delete" /\ tasks[d].status = "ok"
       /\ CallOf(f).op = "delete" /\ tasks[f].status = "error"

(***************************************************************************)
(* The envelope codec: malformed input, sizes, keys, missing files.        *)
(***************************************************************************)
\* the fixed header of an envelope: salt then IV
HeaderLen == SaltLen + IvLen

\* the last call was decryptFile on an existing file shorter than the header
ShortInput ==
  /\ clast.op = "decrypt"
  /\ clast.path \in DOMAIN cfs
  /\ Len(cfs[clast.path]) < HeaderLen

\* C17: decryptFile on an input shorter than 32 bytes fails with an error of
\* a kind other than the 'Failed to decrypt file' one that a wrong password
\* or a corrupted ciphertext gets.
C17_MalformedInputKind ==
  ShortInput
    => /\ clast.status = "error"
       /\ ~Mentions(clast.msg, "Failed to decrypt file")

\* C18: for a plaintext of n bytes the envelope encryptFile writes has length
\* 32 + 16 * (floor(n / 16) + 1) and is 16 bytes of salt, 16 bytes of IV,
\* then the ciphertext.
C18_EnvelopeSize ==
  (clast.op = "encrypt" /\ clast.status = "ok")
    => LET n == Len(cfs[clast.path])
           envelope == cfs[clast.value]
       IN /\ envelope = clast.written
          /\ Len(envelope) = 32 + 16 * ((n \div 16) + 1)
          /\ SubSeq(envelope, 1, 16) = clast.salt
          /\ SubSeq(envelope, 17, 32) = clast.iv
          /\ SubSeq(envelope, 33, Len(envelope))
               = Cipher(Pbkdf2(clast.password, clast.salt), clast.iv,
                        cfs[clast.path])

\* the envelope of a plaintext that fills one block exactly: 64 bytes
C18_Witness ==
  /\ clast.op = "encrypt" /\ clast.status = "ok"
  /\ Len(cfs[clast.path]) = BlockSize
  /\ Len(clast.written) = HeaderLen + 2 * BlockSize

RECURSIVE TrimNul(_)
\* a password without its trailing NUL characters
TrimNul(password) ==
  IF Len(password) = 0 \/ password[Len(password)] # 0 THEN password
  ELSE TrimNul(SubSeq(password, 1, Len(password) - 1))

\* what every generateKey call returns: the supplied salt, or a generated one
\* of 16 bytes, and a 32-byte key that the password and the salt determine
KeyShape ==
  /\ klast.op = "generateKey"
       => /\ Len(klast.key) = 32
          /\ klast.saltOpt # {} => klast.saltOpt = {klast.salt}
          /\ klast.saltOpt = {} => Len(klast.salt) = 16
  /\ (kprev.op = "generateKey" /\ klast.salt = kprev.salt
        /\ klast.password = kprev.password)
       => klast.key = kprev.key

\* two calls, one after the other, under the same salt
SameSalt == kprev.op = "generateKey" /\ klast.salt = kprev.salt

\* C19 as stated: generateKey with a supplied salt returns that salt and a
\* 32-byte key that (password, salt) determines, two different passwords
\* under the same salt give different keys, and with the salt absent a
\* 16-byte salt is generated.
C19_KeyDerivation ==
  /\ KeyShape
  /\ (SameSalt /\ klast.password # kprev.password)
       => klast.key # kprev.key

\* C19: generateKey with a supplied salt returns that salt and a 32-byte key
\* that (password, salt) determines, with the salt absent a 16-byte salt is
\* generated, and two passwords under the same salt give different keys when
\* they differ other than by trailing NUL characters and the same key when
\* they differ only by trailing NUL characters.
C19_KeyDerivationUpToNul ==
  /\ KeyShape
  /\ SameSalt
       => (klast.key = kprev.key
             <=> TrimNul(klast.password) = TrimNul(kprev.password))

\* two calls under the same supplied salt with passwords that differ in a
\* character
C19_Witness ==
  /\ SameSalt
  /\ klast.saltOpt # {} /\ kprev.saltOpt # {}
  /\ TrimNul(klast.password) # TrimNul(kprev.password)
  /\ klast.key # kprev.key

\* C20: encryptFile and decryptFile on a path that does not exist fail with
\* a 'File not found' error and write no file.
C20_MissingSource ==
  [][(clast'.op # "none" /\ clast'.path \notin DOMAIN cfs)
     => /\ clast'.status = "error"
        /\ Mentions(clast'.msg, "File not found")
        /\ ~clast'.wrote
        /\ cfs' = cfs]_vars

\* a decryptFile of a missing path, made when an envelope exists elsewhere
C20_Witness ==
  /\ clast.op = "decrypt" /\ clast.path = MissingPath
  /\ clast.status = "error"
  /\ DOMAIN origin # {}

(***************************************************************************)
(* The resolver's failures.                                                *)
(***************************************************************************)
\* C21: uploadFile on a path that does not exist fails with 'Failed to upload
\* file ...', makes no call to the storage capability, and leaves the
\* registry (and what the storage holds) unchanged.
C21_MissingUploadSource ==
  [][(FMStep("upload") /\ fs[last'.arg] = NoFile)
     => /\ last'.status = "error"
        /\ Head(last'.msg) = "Failed to upload file"
        /\ last'.sCalls = 0 /\ last'.pCalls = 0 /\ last'.fCalls = 0
        /\ UNCHANGED <<fileRegistry, nextUuid, files, ipfsBlocks, ipfsPins>>]_vars

\* an uploadFile of a missing path, made while the registry holds a record
C21_Witness ==
  /\ IsCall("fm", "upload") /\ fs[last.arg] = NoFile
  /\ last.status = "error"
  /\ DOMAIN fileRegistry # {}

\* the action a resolver error names
ActionOf(op) ==
  IF op = "upload" THEN "Failed to upload file"
  ELSE IF op = "download" THEN "Failed to download file"
  ELSE "Failed to delete file"

\* the last call was an uploadFile, downloadFile or deleteFile whose storage
\* call threw
StorageCallThrew ==
  /\ last.layer = "fm" /\ last.op \in {"upload", "download", "delete"}
  /\ last.sCalls = 1 /\ last.sStatus = "error"

\* C22: whenever the storage call inside uploadFile, downloadFile or
\* deleteFile throws, the resolver call throws an error that names the
\* attempted action and carries the inner cause's message; it never returns
\* successfully.
C22_ErrorWrapping ==
  StorageCallThrew
    => /\ last.status = "error"
       /\ last.msg = <<ActionOf(last.op)>> \o last.sMsg
       /\ last.sMsg # <<>>

\* a deleteFile of a registered id whose storage delete threw
C22_Witness ==
  /\ StorageCallThrew /\ last.op = "delete"
  /\ last.arg \in DOMAIN fileRegistry
  /\ Mentions(last.msg, "EIO")

(***************************************************************************)
(* Construction.                                                           *)
(***************************************************************************)
\* the type the constructor call recorded in last asked for
AskedType == IF last.arg = Undefined THEN IpfsType ELSE last.arg

\* C23: constructing a Storage (or AetherDrive) with a storage type other
\* than 'ipfs' throws 'Unsupported storage type' in the constructor and
\* yields no object; no Storage with an unsupported type ever exists, and no
\* operation is ever refused for its storage type.
C23_UnsupportedTypeAtConstruction ==
  /\ (last.op = "construct" /\ AskedType # IpfsType)
       => /\ last.status = "error"
          /\ Head(last.msg) = "Unsupported storage type"
          /\ ~Constructed
  /\ storageType \in {Null, IpfsType}
  /\ last.op \notin {"none", "construct"}
       => /\ storageType = IpfsType
          /\ ~Mentions(last.msg, "not implemented for storage type")

\* a constructor call with an unsupported type, after which nothing exists
C23_Witness ==
  /\ last.op = "construct" /\ last.layer = "drive"
  /\ last.arg = <<"s3">>
  /\ last.status = "error"
  /\ ~Constructed

(***************************************************************************)
(* The registry as JavaScript holds it: a Map from logical ids to          *)
(* references to record objects.  listFiles() returns a new array of the   *)
(* references the Map holds; the caller may change that array or write to  *)
(* an object it refers to.                                                 *)
(***************************************************************************)
\* Map.prototype.has
MapHas(m, k) == \E i \in DOMAIN m : m[i].key = k

\* Map.prototype.set: a key already present keeps its place
MapSetRef(m, k, ref) ==
  IF MapHas(m, k)
  THEN [i \in DOMAIN m |-> IF m[i].key = k THEN [key |-> k, ref |-> ref]
                           ELSE m[i]]
  ELSE Append(m, [key |-> k, ref |-> ref])

\* Map.prototype.delete
MapDeleteRef(m, k) == SelectSeq(m, LAMBDA e : e.key # k)

\* Map.prototype.values, in insertion order
MapValues(m) == [i \in DOMAIN m |-> m[i].ref]

\* as ArrayFromValues, but the caller is handed a view of the Map's values
ArrayFromValues_Live(m) == [taken |-> TRUE, live |-> TRUE, array |-> <<>>]

\* Array.from(this.fileRegistry.values())
ArrayFromValues(m) == [taken |-> TRUE, live |-> FALSE, array |-> MapValues(m)]

\* the references the value returned by listFiles() holds now
Held == IF listing.live THEN MapValues(registryMap) ELSE listing.array

\* the records behind a sequence of references
Deref(refs) == [i \in DOMAIN refs |-> objects[refs[i]]]

\* the records the caller reads through the returned value
HeldRecords == Deref(Held)

\* the registry: its keys and the records behind them
RegistryView ==
  [i \in DOMAIN registryMap |->
     <<registryMap[i].key, objects[registryMap[i].ref]>>]

ListFrame ==
  /\ steps < MaxSteps
  /\ steps' = steps + 1
  /\ UNCHANGED <<fs, usingMock, ipfs, storageType, files, ipfsBlocks,
                 ipfsPins, fileRegistry, nextUuid, last, primaryErrSeen,
                 liveIds, generation, codecVars, concVars, keyVars>>

\* the end of a successful uploadFile: this.fileRegistry.set(fileId, {...})
\* with a new record object
RegisterRecord(fileId, storageId, filePath) ==
  /\ ListFrame
  /\ objects' = Append(objects, RegistryRecord(fileId, storageId, filePath))
  /\ registryMap' = MapSetRef(registryMap, fileId, Len(objects) + 1)
  /\ UNCHANGED listing

\* the end of a successful deleteFile of a registered id:
\* this.fileRegistry.delete(fileId)
UnregisterRecord(fileId) ==
  /\ ListFrame
  /\ MapHas(registryMap, fileId)
  /\ registryMap' = MapDeleteRef(registryMap, fileId)
  /\ UNCHANGED <<objects, listing>>

\* listFiles()
ListCall ==
  /\ ListFrame
  /\ listing' = ArrayFromValues(registryMap)
  /\ UNCHANGED <<objects, registryMap>>

\* a record object of the caller's own
CallerRecord == RegistryRecord(<<"caller">>, <<"caller">>, <<"caller">>)

\* the caller: files.push({...})
ArrayPush ==
  /\ ListFrame
  /\ listing.taken /\ ~listing.live
  /\ objects' = Append(objects, CallerRecord)
  /\ listing' = [listing EXCEPT !.array = Append(@, Len(objects) + 1)]
  /\ UNCHANGED registryMap

\* the caller: files.pop()
ArrayPop ==
  /\ ListFrame
  /\ listing.taken /\ ~listing.live /\ listing.array # <<>>
  /\ listing' = [listing EXCEPT !.array = SubSeq(@, 1, Len(@) - 1)]
  /\ UNCHANGED <<objects, registryMap>>

\* the caller: files[i] = {...}
ArrayReplace(i) ==
  /\ ListFrame
  /\ listing.taken /\ ~listing.live /\ i \in DOMAIN listing.array
  /\ objects' = Append(objects, CallerRecord)
  /\ listing' = [listing EXCEPT !.array[i] = Len(objects) + 1]
  /\ UNCHANGED registryMap

\* the caller: files[i].storageId = ...
ElementWrite(i) ==
  /\ ListFrame
  /\ listing.taken /\ i \in DOMAIN Held
  /\ objects' = [objects EXCEPT ![Held[i]].storageId = <<"caller">>]
  /\ UNCHANGED <<registryMap, listing>>

ListedIds == CustomIds \cup {UuidOf(1)}
ListedStorageIds == {_generateMockFileId(c) : c \in Contents}

RegistryStep ==
  \/ \E k \in ListedIds, b \in ListedStorageIds, p \in SrcPaths :
        RegisterRecord(k, b, p)
  \/ \E k \in ListedIds : UnregisterRecord(k)

ArrayStep ==
  \/ ArrayPush
  \/ ArrayPop
  \/ \E i \in 1..MaxSteps : ArrayReplace(i)

NextList ==
  \/ RegistryStep
  \/ ListCall
  \/ ArrayStep
  \/ \E i \in 1..MaxSteps : ElementWrite(i)

ListSpec == Init /\ [][NextList]_vars

Reuploaded == IsCall("fm", "upload") /\ last.status = "ok" /\ last.replaced

\* C25: after uploadFile(pathA, {fileId: c}) followed by a successful
\* uploadFile(pathB, {fileId: c}), the registry holds exactly one record for
\* c, that record carries the backend id and the metadata of the second
\* upload, and downloadFile(c) yields pathB's content.
C25_ReplaceOnWrite ==
  [][/\ (FMStep("upload") /\ last'.status = "ok" /\ last'.replaced)
          => /\ {k \in DOMAIN fileRegistry' :
                   fileRegistry'[k].id = last'.value} = {last'.value}
             /\ fileRegistry'[last'.value].storageId = last'.sValue
             /\ fileRegistry'[last'.value].name = last'.arg
             /\ DOMAIN fileRegistry' = DOMAIN fileRegistry
     /\ (/\ Reuploaded
         /\ FMStep("download") /\ last'.arg = last.value
         /\ last'.status = "ok")
          => last'.written = last.content]_vars

(***************************************************************************)
(* The registry's lifetime.                                                *)
(***************************************************************************)
\* the call recorded in last' was served by the backend that holds what is
\* stored under its identifier
ServedByHolder ==
  IF last'.sArg \in DOMAIN files
  THEN last'.fCalls = 1 /\ last'.fOk
  ELSE last'.pCalls = 1 /\ ~last'.pErr

StoredAfter(id) ==
  IF id \in DOMAIN files' THEN files'[id]
  ELSE IF \E c \in ipfsBlocks' : IpfsCid(c) = id
       THEN CHOOSE c \in ipfsBlocks' : IpfsCid(c) = id
       ELSE Null

Yields(a, e) ==
  FM_downloadFile(a, <<"dest">>, TryOk(e), FsOk(e)).s.written

\* the step is a completed call addressed to the logical id b
AddressedTo(b) ==
  \/ FMStep("upload") /\ last'.opt = b
  \/ FMStep("delete") /\ last'.arg = b
  \/ FMStep("download") /\ last'.arg = b

\* C28: for two different registered logical ids a and b, no uploadFile with
\* fileId b, deleteFile(b) or downloadFile(b) changes the bytes that
\* downloadFile(a) yields.
C28_Isolation ==
  [][\A a \in DOMAIN fileRegistry, b \in DOMAIN fileRegistry :
       (a # b /\ AddressedTo(b))
         => \A e \in Envs : Yields(a, e)' = Yields(a, e)]_vars

(***************************************************************************)
(* The registry and what the storage holds.                                *)
(***************************************************************************)
\* C29: after any sequence of completed uploadFile, downloadFile and
\* deleteFile calls, every record of the registry has a backend id under
\* which the storage still holds content.
C29_RegistryBackendConsistency ==
  \A k \in DOMAIN fileRegistry :
    StoredUnder(fileRegistry[k].storageId) # Null

(***************************************************************************)
(* Deleting a registered id.                                               *)
(***************************************************************************)
\* C30: deleteFile of a registered id removes the record if and only if the
\* storage's delete returned true; when it throws or returns false the
\* record stays.
C30_DeleteIffBackendTrue ==
  [][(FMStep("delete") /\ last'.arg \in DOMAIN fileRegistry)
     => (last'.arg \notin DOMAIN fileRegistry'
           <=> (last'.sStatus = "ok" /\ last'.sValue = TRUE))]_vars

(***************************************************************************)
(* A deleteFile and an uploadFile of one logical id in flight together:    *)
(* deleteFile('custom-1') is called, and before or after any of its awaits *)
(* uploadFile('fileB', {fileId: 'custom-1'}) runs.  No deleteFile is       *)
(* called once the upload has returned.                                    *)
(***************************************************************************)
RaceTasks == {"delE", "upB"}

\* the registry before the two calls: empty, or the record of an earlier
\* uploadFile('fileA', {fileId: 'custom-1'})
RaceRegistryBefore(registered, storageId) ==
  IF registered
  THEN MapSet(EmptyMap, <<"custom", 1>>,
              RegistryRecord(<<"custom", 1>>, storageId, <<"fileA">>))
  ELSE EmptyMap

InitRace ==
  /\ cfs = EmptyMap
  /\ CodecIdle
  /\ ListIdle
  /\ fs \in [Paths -> Contents \cup {NoFile}]
  /\ fs[<<"fileA">>] = <<"data", 0>>
  /\ fs[<<"fileB">>] # NoFile
  /\ \A d \in DestPaths : fs[d] = NoFile
  /\ storageType = IpfsType
  /\ \E registered \in BOOLEAN :
       \/ /\ usingMock = FALSE /\ ipfs = <<"client">>
          /\ files = EmptyMap
          /\ ipfsBlocks = IF registered THEN {<<"data", 0>>} ELSE {}
          /\ ipfsPins = ipfsBlocks
          /\ fileRegistry =
               RaceRegistryBefore(registered, IpfsCid(<<"data", 0>>))
       \/ /\ usingMock = TRUE /\ ipfs = Null
          /\ files = IF registered
                     THEN MapSet(EmptyMap, <<"custom", 1>>, <<"data", 0>>)
                     ELSE EmptyMap
          /\ ipfsBlocks = {} /\ ipfsPins = {}
          /\ fileRegistry = RaceRegistryBefore(registered, <<"custom", 1>>)
  /\ nextUuid = 0
  /\ liveIds = DOMAIN fileRegistry
  /\ generation = 1
  /\ last = NoOp /\ primaryErrSeen = FALSE /\ steps = 0
  /\ tasks = [t \in RaceTasks |-> NotStarted]
  /\ serial = fileRegistry

\* the upload has returned its id
UploadCompleted == tasks["upB"].pc = "done" /\ tasks["upB"].status = "ok"

\* deleteFile is entered (its synchronous registry lookup runs at the call)
\* while the upload has not returned
DeleteCalledEarlier == DeleteLookup("delE") /\ ~UploadCompleted

NextRace ==
  \/ UploadAccess("upB")
  \/ \E e \in Envs : UploadStore("upB", TryOk(e), FsOk(e))
  \/ UploadRegister("upB")
  \/ DeleteCalledEarlier
  \/ \E e \in Envs : DeleteStore("delE", TryOk(e), FsOk(e))
  \/ DeleteUnregister("delE")

RaceSpec == InitRace /\ [][NextRace]_vars

\* the delete was called and has returned or thrown
DeleteSettled == tasks["delE"].pc = "done"

\* C31: when uploadFile(path, {fileId: c}) has completed successfully and no
\* deleteFile(c) was started after it, c is listed and downloadFile(c)
\* yields path's content, whatever the interleaving at the awaits with a
\* deleteFile(c) started earlier.
C31_ConcurrentDeleteUpload ==
  (UploadCompleted /\ DeleteSettled)
    => /\ \E r \in FM_listFiles.value : r.id = <<"custom", 1>>
       /\ Yields(<<"custom", 1>>, "up") = fs[<<"fileB">>]

(***************************************************************************)
(* One uploadFile call on a new FileManager, cut at its awaits, while the  *)
(* caller's own code may remove source files (as the tests' cleanup does   *)
(* with fs.remove).                                                        *)
(***************************************************************************)
SoloTasks == {"upA"}

InitSolo ==
  /\ cfs = EmptyMap
  /\ CodecIdle
  /\ ListIdle
  /\ fs \in [Paths -> Contents \cup {NoFile}]
  /\ \A d \in DestPaths : fs[d] = NoFile
  /\ storageType = IpfsType
  /\ \/ usingMock = FALSE /\ ipfs = <<"client">>
     \/ usingMock = TRUE /\ ipfs = Null
  /\ files = EmptyMap
  /\ ipfsBlocks = {}
  /\ ipfsPins = {}
  /\ fileRegistry = EmptyMap
  /\ nextUuid = 0
  /\ liveIds = {}
  /\ generation = 1
  /\ last = NoOp /\ primaryErrSeen = FALSE /\ steps = 0
  /\ tasks = [t \in SoloTasks |-> NotStarted]
  /\ serial = EmptyMap

\* the caller's code removes a source file (fs.remove of its directory)
\* between the awaits of the call
Unlink(path) ==
  /\ fs[path] # NoFile
  /\ fs' = [fs EXCEPT ![path] = NoFile]
  /\ UNCHANGED <<usingMock, ipfs, storageType, files, ipfsBlocks, ipfsPins,
                 fileRegistry, nextUuid, last, primaryErrSeen, steps, liveIds,
                 generation, codecVars, concVars, keyVars, listVars>>

NextSolo ==
  \/ UploadAccess("upA")
  \/ \E e \in Envs : UploadStore("upA", TryOk(e), FsOk(e))
  \/ UploadRegister("upA")
  \/ \E p \in SrcPaths : Unlink(p)

SoloSpec == InitSolo /\ [][NextSolo]_vars

\* the uploadFile call threw
UploadThrew == tasks["upA"].pc = "done" /\ tasks["upA"].status = "error"

\* C32: whenever uploadFile throws, the registry and the content the storage
\* holds are what they were before the call (here: empty), so no backend
\* content is left without a record.
C32_FailedUploadAtomic ==
  UploadThrew
    => /\ fileRegistry = EmptyMap
       /\ files = EmptyMap
       /\ ipfsBlocks = {}
       /\ ipfsPins = {}

(***************************************************************************)
(* The codec over envelopes that were damaged after encryptFile wrote      *)
(* them: the last byte lost, or the last byte changed.                     *)
(***************************************************************************)
Damages == {"truncated", "altered"}

Damaged(env, kind) ==
  IF kind = "truncated" THEN SubSeq(env, 1, Len(env) - 1)
  ELSE [env EXCEPT ![Len(env)] = (env[Len(env)] + 1) % 256]

\* an envelope encryptFile wrote is damaged; it is no longer the envelope of
\* its plaintext
Corrupt(path, kind) ==
  /\ path \in DOMAIN origin
  /\ cfs' = [cfs EXCEPT ![path] = Damaged(cfs[path], kind)]
  /\ origin' = MapDelete(origin, path)
  /\ UNCHANGED <<clast, resolverVars, concVars, keyVars, listVars>>

NextCorrupt ==
  \/ NextCodec
  \/ \E p \in DecInputPaths, kind \in Damages : Corrupt(p, kind)

CorruptSpec == InitCodec /\ [][NextCorrupt]_vars

\* the step is a decryptFile call that threw
DecryptThrew ==
  clast' # clast /\ clast'.op = "decrypt" /\ clast'.status = "error"

\* C33: when decryptFile throws (wrong password, corrupted ciphertext, short
\* envelope), the call has not written or modified the output path: no file
\* is different after the call.
C33_FailedDecryptWritesNothing ==
  [][DecryptThrew => cfs' = cfs]_vars

\* the output file of an earlier decryptFile is in place, and decryptFile
\* has thrown on the same envelope after it was damaged
C33_Witness ==
  /\ clast.op = "decrypt" /\ clast.status = "error"
  /\ clast.path \in DOMAIN cfs
  /\ clast.from = {}
  /\ Len(cfs[clast.path]) >= HeaderLen
  /\ DecOutputPath(clast.path, clast.outOpt) # clast.path
  /\ DecOutputPath(clast.path, clast.outOpt) \in DOMAIN cfs

(***************************************************************************)
(* The codec over file names of the caller's choice: encryptFile may be    *)
(* given options.outputPath, so an envelope can sit under a name that does *)
(* not end in '.enc'; decryptFile is called without options.outputPath.    *)
(***************************************************************************)
VaultPath == <<"vault">>

EncOutputOpts == {Null, VaultPath}
NamedInputPaths == DecInputPaths \cup {VaultPath}

\* one value of crypto.randomBytes(16) is enough for the names written
NamedDraws == {Fill(16, 17, 3)}

NextNamed ==
  \/ \E p \in EncInputPaths, w \in Passwords, o \in EncOutputOpts,
        iv \in NamedDraws, salt \in NamedDraws :
        EncryptFile(p, w, o, iv, salt)
  \/ \E p \in NamedInputPaths, w \in Passwords : DecryptFile(p, w, Null)

\* the plaintext file: empty, one byte, or one full block
NamedPlaintexts == {Fill(n, 7, 65) : n \in {0, 1, BlockSize}}

InitNamed ==
  /\ InitCodec
  /\ cfs[PlainPath] \in NamedPlaintexts

NamedSpec == InitNamed /\ [][NextNamed]_vars

\* the last call was made without options.outputPath and wrote its output
WroteDefaultOutput ==
  /\ clast.op \in {"encrypt", "decrypt"}
  /\ clast.outOpt = Null
  /\ clast.wrote

\* the name ends in '.enc'
EndsInEnc(filePath) ==
  Len(filePath) > 1 /\ filePath[Len(filePath)] = "enc"

\* C34: encryptFile and decryptFile called without options.outputPath never
\* write to their own input path: encryptFile writes '<input>.enc', and
\* decryptFile writes the input name with a trailing '.enc' replaced by
\* '.dec', for every input file name.
C34_InputPreserved ==
  WroteDefaultOutput
    => /\ clast.value # clast.path
       /\ clast.op = "encrypt" => clast.value = Append(clast.path, "enc")
       /\ (clast.op = "decrypt" /\ EndsInEnc(clast.path))
            => clast.value = [clast.path EXCEPT ![Len(clast.path)] = "dec"]

====
